---- MODULE Spec2Model ----
(***************************************************************************)
(* A model of the front end of CCL (krab1k/CCL): the parser's tree         *)
(* builder (ccl/parser.py), the AST (ccl/ast.py), the type lattice         *)
(* (ccl/types.py), the function catalog (ccl/functions.py) and the symbol  *)
(* table builder / semantic analyzer (ccl/symboltable.py).                 *)
(*                                                                         *)
(* The analyzer is one recursive walk over the AST.  The model keeps the   *)
(* analyzer's fields as state and lets the walk meet the nodes of the      *)
(* Method one after the other: first the annotations, then the statements  *)
(* (a loop is met as its header, its body statements and its end).         *)
(* An expression is typed by the recursive operator Visit, a translation   *)
(* of the visit_* methods that threads the fields they change.             *)
(***************************************************************************)
EXTENDS Integers, Sequences, FiniteSets, TLC

VARIABLES
    pc,               \* position of the compilation: source / annotations / statements / done / failed
    error,            \* class of the exception that ended the compilation, "none" if none
    entry,            \* how the analyzer was entered: process_source or create_from_ast
    global_table,     \* SymbolTableBuilder.global_table.symbols
    symbol_table,     \* SymbolTableBuilder.symbol_table.symbols (the table attached to the Method)
    scopes,           \* the tables of the open For / ForEach loops, innermost last, with their parent and what the loop bound
    iterating_over,   \* SymbolTableBuilder._iterating_over
    indices_mapping,  \* SymbolTableBuilder._indices_mapping
    nil_nodes,        \* kinds of Expression nodes met so far that were left with result_type None
    q_types,          \* result types given to Name nodes whose val is q
    unbound_use,      \* an Object name was typed as expression or index while nothing iterated it
    predicates,       \* name and number of arguments of the Predicate nodes of the AST met so far
    parent,           \* ASTNode.parent of the nodes of the parsed Method: the path of a node to the path of its parent
    nodes,            \* number of annotations and statements met so far
    last              \* what the last step did (operation, inputs, outcome)

vars == <<pc, error, entry, global_table, symbol_table, scopes, iterating_over,
          indices_mapping, nil_nodes, q_types, unbound_use, predicates, parent, nodes, last>>

----------------------------------------------------------------------------
(* Bounds of the model *)

\* annotations plus statements of one Method
MaxNodes == 3

----------------------------------------------------------------------------
(* ccl/types.py: a type is a sequence of strings *)

NoneT == <<"None">>
IntT == <<"Int">>
FloatT == <<"Float">>
AtomT == <<"Atom">>
BondT == <<"Bond">>
AtomParameter == <<"Atom Parameter">>
BondParameter == <<"Bond Parameter">>
CommonParameter == <<"Common Parameter">>
StringT == <<"String">>

ArrayType(indices) == <<"Array">> \o indices

IsNumeric(t) == t \in {IntT, FloatT}

IsObject(t) == t \in {AtomT, BondT}

IsParameter(t) == t \in {AtomParameter, BondParameter, CommonParameter}

IsArray(t) == t[1] = "Array"

IsFunctionType(t) == t[1] = "Function"

\* ArrayType.indices, and ArrayType.dim
Indices(t) == SubSeq(t, 2, Len(t))

dim(t) == Len(t) - 1

\* a tuple of ObjectTypes, kept by an ArrayType, as a tuple of types
AsTypes(indices) == [k \in 1..Len(indices) |-> <<indices[k]>>]

\* a tuple of types, each an ObjectType, as the tuple ArrayType keeps
Flatten(types) == [k \in 1..Len(types) |-> types[k][1]]

\* ArrayType and FunctionType define __eq__ and no __hash__: instances are unhashable
Unhashable(t) == IsArray(t) \/ IsFunctionType(t)

----------------------------------------------------------------------------
(* ccl/functions.py *)

MATH_FUNCTIONS == {"exp", "sqrt"}

FunctionNames == MATH_FUNCTIONS \cup {"inv", "electronegativity", "atomic number", "bond order", "distance"}

FUNCTIONS ==
    [f \in FunctionNames |->
        CASE f \in MATH_FUNCTIONS -> [args |-> <<FloatT>>, ret |-> FloatT]
          [] f = "inv" -> [args |-> <<ArrayType(<<"Atom", "Atom">>)>>, ret |-> ArrayType(<<"Atom", "Atom">>)]
          [] f = "electronegativity" -> [args |-> <<AtomT>>, ret |-> FloatT]
          [] f = "atomic number" -> [args |-> <<AtomT>>, ret |-> IntT]
          [] f = "bond order" -> [args |-> <<BondT>>, ret |-> IntT]
          [] f = "distance" -> [args |-> <<AtomT, AtomT>>, ret |-> FloatT]]

PredicateNames == {"element", "bonded", "near", "bond_distance"}

PREDICATES ==
    [p \in PredicateNames |->
        CASE p = "element" -> <<AtomT, StringT>>
          [] p = "bonded" -> <<AtomT, AtomT>>
          [] p = "near" -> <<AtomT, AtomT, FloatT>>
          [] p = "bond_distance" -> <<AtomT, AtomT, IntT>>]

\* Function.type of a catalog function: the FunctionType, named by its function
FunctionTypeOf(f) == <<"Function", f>>

\* ccl/common.py: the element names, lower case
ELEMENT_NAMES == {"h", "c"}

\* str.lower on the names of the model
lower(n) == IF n = "H" THEN "h" ELSE n

----------------------------------------------------------------------------
(* ccl/ast.py: nodes are records; k is the node's class *)

\* val is the literal's text
Number(val, ntype) == [k |-> "Number", val |-> val, ntype |-> ntype]

Name(val) == [k |-> "Name", val |-> val]

Subscript(name, indices) == [k |-> "Subscript", name |-> name, indices |-> indices]

BinaryOp(left, op, right) == [k |-> "BinaryOp", left |-> left, op |-> op, right |-> right]

UnaryOp(expr) == [k |-> "UnaryOp", expr |-> expr]

Sum(name, expr) == [k |-> "Sum", name |-> name, expr |-> expr]

Function(name, arg) == [k |-> "Function", name |-> name, arg |-> arg]

EE(idx_row, idx_col, diag, off, rhs) ==
    [k |-> "EE", idx_row |-> idx_row, idx_col |-> idx_col, diag |-> diag, off |-> off, rhs |-> rhs]

\* BinaryOp.Ops
Ops == {"+", "-", "*", "/", "^"}

\* a missing constraint (None)
NoConstraint == [k |-> "None"]

Predicate(name, args) == [k |-> "Predicate", name |-> name, args |-> args]

RelOp(lhs, op, rhs) == [k |-> "RelOp", lhs |-> lhs, op |-> op, rhs |-> rhs]

BinaryLogicalOp(lhs, op, rhs) == [k |-> "BinaryLogicalOp", lhs |-> lhs, op |-> op, rhs |-> rhs]

UnaryLogicalOp(constraint) == [k |-> "UnaryLogicalOp", constraint |-> constraint]

----------------------------------------------------------------------------
(* ccl/symboltable.py: symbols and tables *)

\* resolve's None
NoSymbol == [kind |-> "None", type |-> NoneT, constraints |-> NoConstraint,
             indices |-> <<>>, rules |-> <<>>, fn |-> ""]

ParameterSymbol(ptype) == [NoSymbol EXCEPT !.kind = "Parameter", !.type = ptype]

ObjectSymbol(otype, constraints) ==
    [NoSymbol EXCEPT !.kind = "Object", !.type = otype, !.constraints = constraints]

FunctionSymbol(f) == [NoSymbol EXCEPT !.kind = "Function", !.type = FunctionTypeOf(f), !.fn = f]

VariableSymbol(vtype) == [NoSymbol EXCEPT !.kind = "Variable", !.type = vtype]

\* rules: the dict Optional[Constraint] -> Expression, in insertion order
SubstitutionSymbol(indices, rules) ==
    [NoSymbol EXCEPT !.kind = "Substitution", !.indices = indices, !.rules = rules]

\* symbol_type(): property.type.return_type
ConstantSymbol(f) == [NoSymbol EXCEPT !.kind = "Constant", !.type = FUNCTIONS[f].ret, !.fn = f]

\* the empty dict
EmptyTable == [n \in {} |-> NoSymbol]

\* symbols[name] = symbol
Put(table, name, symbol) == (name :> symbol) @@ table

\* SymbolTable.resolve along a parent chain given innermost first
Resolve(chain, name) ==
    LET hits == {k \in 1..Len(chain) : name \in DOMAIN chain[k]}
    IN IF hits = {} THEN NoSymbol
       ELSE chain[CHOOSE k \in hits : \A j \in hits : k <= j][name]

\* a variant of Defined that looks into the innermost table only
DefinedHere(chain, name) == name \in DOMAIN chain[1]

\* resolve does not return None
Defined(chain, name) == Resolve(chain, name).kind # "None"

\* the guard None is a key of rules
HasDefault(rules) == \E k \in 1..Len(rules) : rules[k].guard = NoConstraint

\* rules[None]
DefaultBody(rules) == rules[CHOOSE k \in 1..Len(rules) : rules[k].guard = NoConstraint].body

\* check_substitutions_default: a SubstitutionSymbol of the global table has no None rule
MissingDefault(table) ==
    \E n \in DOMAIN table : table[n].kind = "Substitution" /\ ~HasDefault(table[n].rules)

\* dict.get(key, key)
MapGet(map, n) == IF n \in DOMAIN map THEN map[n] ELSE n

\* dict.update with zip(formal, actual): a later pair overrides an earlier one
RECURSIVE MapUpdate(_, _, _)
MapUpdate(map, formal, actual) ==
    IF formal = <<>> \/ actual = <<>> THEN map
    ELSE MapUpdate((formal[1] :> actual[1]) @@ [n \in DOMAIN map \ {formal[1]} |-> map[n]],
                   Tail(formal), Tail(actual))

\* the property iterating_over
IteratingOver(iter, map) == {MapGet(map, i) : i \in iter}

----------------------------------------------------------------------------
(* SymbolTableBuilder.visit_Assign.check_types *)

\* a variant of check_types that lets every Numeric into a Numeric variable
check_types_widening(lhs, rhs) ==
    IF IsArray(lhs) /\ IsArray(rhs) THEN lhs = rhs
    ELSE IF IsArray(lhs) /\ IsNumeric(rhs) THEN TRUE
    ELSE IF IsNumeric(lhs) /\ IsNumeric(rhs) THEN TRUE
    ELSE FALSE

check_types(lhs, rhs) ==
    IF IsArray(lhs) /\ IsArray(rhs) THEN lhs = rhs
    ELSE IF IsArray(lhs) /\ IsNumeric(rhs) THEN TRUE
    ELSE IF IsNumeric(lhs) /\ IsNumeric(rhs) THEN ~(lhs = IntT /\ rhs = FloatT)
    ELSE FALSE

\* SymbolTableBuilder.visit_Function.check_args
check_args(expected, given) ==
    expected = given \/ (given = IntT /\ expected = FloatT)

\* the outcome of typing a node that raised CCLTypeError
RaisedTypeError == <<"CCLTypeError">>

\* a variant of BinaryOpType whose matrix * vector branch compares the first
\* index of the matrix with the vector and keeps the second
BinaryOpTypeTransposed(op, ltype, rtype) ==
    IF IsNumeric(ltype) /\ IsNumeric(rtype) THEN
        IF ltype = FloatT \/ rtype = FloatT THEN FloatT ELSE IntT
    ELSE IF IsArray(ltype) /\ IsArray(rtype) THEN
        IF op \in {"+", "-"} THEN
            IF Indices(ltype) = Indices(rtype) THEN ltype ELSE RaisedTypeError
        ELSE IF op = "*" THEN
            IF dim(ltype) = 2 /\ dim(rtype) = 2 THEN
                IF ltype[3] # rtype[2] THEN RaisedTypeError
                ELSE ArrayType(<<ltype[2], rtype[3]>>)
            ELSE IF dim(ltype) = 1 /\ dim(rtype) = 2 THEN
                IF ltype[2] # rtype[2] THEN RaisedTypeError
                ELSE ArrayType(<<rtype[3]>>)
            ELSE IF dim(ltype) = 2 /\ dim(rtype) = 1 THEN
                IF ltype[2] # rtype[2] THEN RaisedTypeError
                ELSE ArrayType(<<ltype[3]>>)
            ELSE IF dim(ltype) = 1 /\ dim(rtype) = 1 THEN
                IF ltype # rtype THEN RaisedTypeError ELSE FloatT
            ELSE NoneT
        ELSE RaisedTypeError
    ELSE IF (IsArray(ltype) \/ IsNumeric(ltype)) /\ (IsArray(rtype) \/ IsNumeric(rtype)) THEN
        IF op \notin {"*", "/"} THEN RaisedTypeError
        ELSE IF op = "/" /\ IsNumeric(ltype) /\ IsArray(rtype) THEN RaisedTypeError
        ELSE IF IsArray(ltype) THEN ltype ELSE rtype
    ELSE RaisedTypeError

\* SymbolTableBuilder.visit_BinaryOp on the operand types: the node's result_type
\* (NoneT when no branch assigns one), or RaisedTypeError
BinaryOpType(op, ltype, rtype) ==
    IF IsNumeric(ltype) /\ IsNumeric(rtype) THEN
        IF ltype = FloatT \/ rtype = FloatT THEN FloatT ELSE IntT
    ELSE IF IsArray(ltype) /\ IsArray(rtype) THEN
        IF op \in {"+", "-"} THEN
            IF Indices(ltype) = Indices(rtype) THEN ltype ELSE RaisedTypeError
        ELSE IF op = "*" THEN
            IF dim(ltype) = 2 /\ dim(rtype) = 2 THEN
                IF ltype[3] # rtype[2] THEN RaisedTypeError
                ELSE ArrayType(<<ltype[2], rtype[3]>>)
            ELSE IF dim(ltype) = 1 /\ dim(rtype) = 2 THEN
                IF ltype[2] # rtype[2] THEN RaisedTypeError
                ELSE ArrayType(<<rtype[3]>>)
            ELSE IF dim(ltype) = 2 /\ dim(rtype) = 1 THEN
                IF ltype[3] # rtype[2] THEN RaisedTypeError
                ELSE ArrayType(<<ltype[2]>>)
            ELSE IF dim(ltype) = 1 /\ dim(rtype) = 1 THEN
                IF ltype # rtype THEN RaisedTypeError ELSE FloatT
            ELSE NoneT
        ELSE RaisedTypeError
    ELSE IF (IsArray(ltype) \/ IsNumeric(ltype)) /\ (IsArray(rtype) \/ IsNumeric(rtype)) THEN
        IF op \notin {"*", "/"} THEN RaisedTypeError
        ELSE IF op = "/" /\ IsNumeric(ltype) /\ IsArray(rtype) THEN RaisedTypeError
        ELSE IF IsArray(ltype) THEN ltype ELSE rtype
    ELSE RaisedTypeError

----------------------------------------------------------------------------
(* SymbolTableBuilder: typing of expressions and constraints.               *)
(* The walk's fields are threaded in a record s:                            *)
(*   err    the exception raised, "none" if none                            *)
(*   t      result_type of the node just visited                            *)
(*   chain  current_table and its parents, innermost first                  *)
(*   iter   _iterating_over        map  _indices_mapping                    *)
(*   nil, qt, unbound              as the variables nil_nodes, q_types,     *)
(*                                 unbound_use                              *)
(* seen holds the substitution and Sum expansions in progress: entering one *)
(* of them again with the same fields never returns (RecursionError).       *)

Raise(s, e) == [s EXCEPT !.err = e, !.t = NoneT]

Typed(s, t) == [s EXCEPT !.t = t]

Failed(s) == s.err # "none"

\* _indices_mapping.pop(si.val) for every formal index fails on a missing key
PopFails(map, formal) ==
    \/ \E k \in 1..Len(formal) : formal[k] \notin DOMAIN map
    \/ \E j, k \in 1..Len(formal) : j < k /\ formal[j] = formal[k]

PopAll(map, formal) ==
    [n \in DOMAIN map \ {formal[k] : k \in 1..Len(formal)} |-> map[n]]

\* what tells one expansion of a substitution or a Sum from another
Key(kind, name, map, s) == <<kind, name, map, s.iter, Len(s.chain)>>

RECURSIVE Visit(_, _, _), visit_Name(_, _, _), visit_Subscript(_, _, _),
          VisitIndices(_, _, _, _), VisitRules(_, _, _, _), visit_Function(_, _, _),
          visit_BinaryOp(_, _, _), visit_Sum(_, _, _), visit_EE(_, _, _),
          VisitConstraint(_, _, _), visit_Predicate(_, _, _), VisitArgs(_, _, _, _)

visit_Name(val, s, seen) ==
    LET result_type(stype) == IF stype = CommonParameter THEN FloatT ELSE stype
        typed(name, body, stype) ==
            [body EXCEPT !.t = result_type(stype),
                         !.qt = IF val = "q" THEN @ \cup {result_type(stype)} ELSE @,
                         !.unbound = @ \/ (IsObject(stype)
                                           /\ name \notin IteratingOver(body.iter, body.map))]
        substituted(name, body) == IF Failed(body) THEN body ELSE typed(name, body, body.t)
        resolved(name, sym) ==
            IF sym.kind = "None" THEN Raise(s, "CCLSymbolError")
            ELSE IF sym.kind # "Substitution" THEN typed(name, s, sym.type)
            ELSE IF ~HasDefault(sym.rules) THEN Raise(s, "KeyError")
            ELSE IF Key("Name", name, s.map, s) \in seen THEN Raise(s, "RecursionError")
            ELSE substituted(name, Visit(DefaultBody(sym.rules), s,
                                         seen \cup {Key("Name", name, s.map, s)}))
        mapped(name) == resolved(name, Resolve(s.chain, name))
    IN mapped(MapGet(s.map, val))

\* the loop over node.indices of visit_Subscript: [s, types]
VisitIndices(indices, types, s, seen) ==
    LET visited(r) ==
            IF Failed(r) THEN [s |-> r, types |-> types]
            ELSE IF IsObject(r.t)
                    /\ MapGet(r.map, indices[1]) \notin IteratingOver(r.iter, r.map)
                 THEN [s |-> Raise(r, "CCLSymbolError"), types |-> types]
            ELSE VisitIndices(Tail(indices), Append(types, r.t), r, seen)
    IN IF indices = <<>> THEN [s |-> s, types |-> types]
       ELSE visited(visit_Name(indices[1], s, seen))

\* the loop over s.rules.items() of visit_Subscript: [s, types]
VisitRules(rules, types, s, seen) ==
    LET added(b) ==
            IF Failed(b) THEN [s |-> b, types |-> types]
            ELSE IF Unhashable(b.t) THEN [s |-> Raise(b, "TypeError"), types |-> types]
            ELSE VisitRules(Tail(rules), types \cup {b.t}, b, seen)
        guarded(c) ==
            IF Failed(c) THEN [s |-> c, types |-> types]
            ELSE added(Visit(rules[1].body, c, seen))
    IN IF rules = <<>> THEN [s |-> s, types |-> types]
       ELSE guarded(VisitConstraint(rules[1].guard, s, seen))

visit_Subscript(node, s, seen) ==
    LET sym == Resolve(s.chain, node.name)
        ruled(rr) ==
            IF Failed(rr.s) THEN rr.s
            ELSE IF Cardinality(rr.types) > 1 THEN Raise(rr.s, "CCLTypeError")
            ELSE IF PopFails(rr.s.map, sym.indices) THEN Raise(rr.s, "KeyError")
            ELSE [rr.s EXCEPT !.t = FloatT, !.map = PopAll(@, sym.indices)]
        substituted(s2, index_types, map1) ==
            IF Len(sym.indices) # Len(index_types) THEN Raise(s2, "CCLTypeError")
            ELSE IF \E k \in 1..Len(index_types) : ~IsObject(index_types[k])
                 THEN Raise(s2, "CCLTypeError")
            ELSE IF Key("Subscript", node.name, map1, s2) \in seen
                 THEN Raise(s2, "RecursionError")
            ELSE ruled(VisitRules(sym.rules, {}, [s2 EXCEPT !.map = map1],
                                  seen \cup {Key("Subscript", node.name, map1, s2)}))
        indexed(symbol_type, s2, index_types) ==
            IF Failed(s2) THEN s2
            ELSE IF sym.kind = "Parameter" THEN
                 IF \/ symbol_type = AtomParameter /\ index_types # <<AtomT>>
                    \/ symbol_type = BondParameter
                       /\ index_types \notin {<<BondT>>, <<AtomT, AtomT>>}
                 THEN Raise(s2, "CCLTypeError")
                 ELSE IF symbol_type = CommonParameter THEN Raise(s2, "CCLTypeError")
                 ELSE Typed(s2, FloatT)
            ELSE IF sym.kind = "Variable" /\ IsArray(symbol_type) THEN
                 IF AsTypes(Indices(symbol_type)) # index_types THEN Raise(s2, "CCLTypeError")
                 ELSE Typed(s2, FloatT)
            ELSE IF sym.kind = "Function" THEN
                 IF ~IsFunctionType(symbol_type) THEN Raise(s2, "AttributeError")
                 ELSE IF FUNCTIONS[symbol_type[2]].args # index_types
                      THEN Raise(s2, "CCLTypeError")
                 ELSE Typed(s2, FUNCTIONS[sym.fn].ret)
            ELSE IF sym.kind = "Substitution"
                 THEN substituted(s2, index_types, MapUpdate(s2.map, sym.indices, node.indices))
            ELSE Raise(s2, "CCLTypeError")
        looped(symbol_type, ix) == indexed(symbol_type, ix.s, ix.types)
        named(s1) ==
            IF Failed(s1) THEN s1
            ELSE looped(s1.t, VisitIndices(node.indices, <<>>, s1, seen))
    IN named(IF sym.kind # "Substitution" THEN visit_Name(node.name, s, seen)
             ELSE [s EXCEPT !.t = NoneT, !.nil = @ \cup {"Subscript.name"}])

visit_Function(node, s, seen) ==
    LET visited(a) ==
            IF Failed(a) THEN a
            ELSE IF node.name \notin FunctionNames THEN Raise(a, "CCLSymbolError")
            ELSE IF ~check_args(FUNCTIONS[node.name].args[1], a.t) THEN Raise(a, "CCLTypeError")
            ELSE Typed(a, FUNCTIONS[node.name].ret)
    IN visited(Visit(node.arg, s, seen))

visit_BinaryOp(node, s, seen) ==
    LET typed(r, t) ==
            IF t = RaisedTypeError THEN Raise(r, "CCLTypeError")
            ELSE [r EXCEPT !.t = t, !.nil = IF t = NoneT THEN @ \cup {"BinaryOp"} ELSE @]
        right(l, r) == IF Failed(r) THEN r ELSE typed(r, BinaryOpType(node.op, l.t, r.t))
        left(l) == IF Failed(l) THEN l ELSE right(l, Visit(node.right, l, seen))
    IN left(Visit(node.left, s, seen))

visit_Sum(node, s, seen) ==
    LET sym == Resolve(s.chain, node.name)
        summed(b) ==
            IF Failed(b) THEN b
            ELSE IF node.name \notin b.iter THEN Raise(b, "KeyError")
            ELSE [b EXCEPT !.iter = @ \ {node.name}]
        constrained(c) == IF Failed(c) THEN c ELSE summed(Visit(node.expr, c, seen))
    IN IF sym.kind = "None" THEN Raise(s, "CCLSymbolError")
       ELSE IF sym.kind = "Substitution" /\ ~HasDefault(sym.rules) THEN Raise(s, "KeyError")
       ELSE IF sym.kind # "Object" THEN Raise(s, "CCLSymbolError")
       ELSE IF Key("Sum", node.name, s.map, s) \in seen THEN Raise(s, "RecursionError")
       ELSE constrained(VisitConstraint(sym.constraints,
                                        [s EXCEPT !.iter = @ \cup {node.name}],
                                        seen \cup {Key("Sum", node.name, s.map, s)}))

visit_EE(node, s, seen) ==
    LET table == Put(Put(EmptyTable, node.idx_row, ObjectSymbol(AtomT, NoConstraint)),
                     node.idx_col, ObjectSymbol(AtomT, NoConstraint))
        parts(d, o, r) ==
            IF Failed(r) THEN r
            ELSE IF Unhashable(d.t) \/ Unhashable(o.t) \/ Unhashable(r.t)
                 THEN Raise(r, "TypeError")
            ELSE IF {d.t, o.t, r.t} # {FloatT} THEN Raise(r, "CCLTypeError")
            ELSE [r EXCEPT !.t = ArrayType(<<"Atom">>),
                           !.iter = @ \ {node.idx_row, node.idx_col},
                           !.chain = Tail(@)]
        off(d, o) == IF Failed(o) THEN o ELSE parts(d, o, Visit(node.rhs, o, seen))
        diag(d) == IF Failed(d) THEN d ELSE off(d, Visit(node.off, d, seen))
    IN IF Defined(s.chain, node.idx_row) \/ Defined(s.chain, node.idx_col)
       THEN Raise(s, "CCLSymbolError")
       ELSE IF node.idx_row = node.idx_col THEN Raise(s, "CCLSymbolError")
       ELSE diag(Visit(node.diag, [s EXCEPT !.iter = @ \cup {node.idx_row, node.idx_col},
                                            !.chain = <<table>> \o @], seen))

\* the loop over zip(f.type.args, node.args) of visit_Predicate
VisitArgs(arg_types, args, s, seen) ==
    LET object(v) ==
            IF Failed(v) THEN v
            ELSE IF args[1].k \notin {"Name", "Number"} THEN Raise(v, "AttributeError")
            ELSE IF args[1].k = "Number" THEN Raise(v, "CCLSymbolError")
            ELSE IF MapGet(v.map, args[1].val) \notin IteratingOver(v.iter, v.map)
                 THEN Raise(v, "CCLSymbolError")
            ELSE IF v.t # arg_types[1] THEN Raise(v, "CCLTypeError")
            ELSE v
        rest(v) == IF Failed(v) THEN v ELSE VisitArgs(Tail(arg_types), Tail(args), v, seen)
    IN IF arg_types = <<>> THEN s
       ELSE IF IsObject(arg_types[1]) THEN rest(object(Visit(args[1], s, seen)))
       ELSE IF arg_types[1] = StringT THEN
            rest(IF args[1].k # "Name" THEN Raise(s, "CCLTypeError")
                 ELSE [s EXCEPT !.nil = @ \cup {"Predicate.args"}])
       ELSE rest(IF args[1].k # "Number" THEN Raise(s, "CCLTypeError") ELSE s)

visit_Predicate(node, s, seen) ==
    LET checked(r) ==
            IF Failed(r) THEN r
            ELSE IF node.name = "element" /\ lower(node.args[2].val) \notin ELEMENT_NAMES
                 THEN Raise(r, "CCLTypeError")
            ELSE r
    IN IF node.name \notin PredicateNames THEN Raise(s, "CCLSymbolError")
       ELSE IF Len(PREDICATES[node.name]) # Len(node.args) THEN Raise(s, "CCLSymbolError")
       ELSE checked(VisitArgs(PREDICATES[node.name], node.args, s, seen))

\* ASTVisitor.visit on a constraint: visit_Predicate, generic_visit for the other classes
VisitConstraint(node, s, seen) ==
    LET second(l, rhs) == IF Failed(l) THEN l ELSE Visit(rhs, l, seen)
        other(l, rhs) == IF Failed(l) THEN l ELSE VisitConstraint(rhs, l, seen)
    IN CASE node.k = "None" -> s
         [] node.k = "Predicate" -> visit_Predicate(node, s, seen)
         [] node.k = "RelOp" -> second(Visit(node.lhs, s, seen), node.rhs)
         [] node.k = "BinaryLogicalOp" -> other(VisitConstraint(node.lhs, s, seen), node.rhs)
         [] node.k = "UnaryLogicalOp" -> VisitConstraint(node.constraint, s, seen)

\* ASTVisitor.visit on an expression
Visit(node, s, seen) ==
    CASE node.k = "Number" -> Typed(s, node.ntype)
      [] node.k = "Name" -> visit_Name(node.val, s, seen)
      [] node.k = "Subscript" -> visit_Subscript(node, s, seen)
      [] node.k = "BinaryOp" -> visit_BinaryOp(node, s, seen)
      [] node.k = "UnaryOp" -> Visit(node.expr, s, seen)
      [] node.k = "Sum" -> visit_Sum(node, s, seen)
      [] node.k = "Function" -> visit_Function(node, s, seen)
      [] node.k = "EE" -> visit_EE(node, s, seen)

----------------------------------------------------------------------------
(* ccl/ast.py: __eq__ and __hash__ of the nodes used as keys of            *)
(* SubstitutionSymbol.rules.  A hash is modelled as the set of the string  *)
(* and number hashes it xors together: x ^ y is the symmetric difference.  *)

Xor(a, b) == (a \ b) \cup (b \ a)

\* Enum.__hash__ is the hash of the member's name
MemberName(op) ==
    CASE op = "<" -> "LT" [] op = "<=" -> "LE" [] op = ">" -> "GT" [] op = ">=" -> "GE"
      [] op = "==" -> "EQ" [] op = "!=" -> "NEQ" [] op = "And" -> "AND" [] op = "Or" -> "OR"
      [] op = "Not" -> "NOT" [] op = "Int" -> "INT" [] op = "Float" -> "FLOAT"

\* Number and Name define __eq__ and __hash__; every other Expression class
\* inherits object's: two nodes are equal only if they are the same object
ByIdentity(node) == node.k \notin {"Number", "Name"}

\* Number.__hash__, Name.__hash__
HashExpr(node) ==
    IF node.k = "Name" THEN {<<"str", node.val>>}
    ELSE Xor({<<"num", node.val>>}, {<<"str", MemberName(node.ntype[1])>>})

\* Number.__eq__, Name.__eq__, object.__eq__ on two different nodes
EqExpr(a, b) ==
    IF a.k = "Name" /\ b.k = "Name" THEN a.val = b.val
    ELSE IF a.k = "Number" /\ b.k = "Number" THEN a.val = b.val /\ a.ntype = b.ntype
    ELSE FALSE

RECURSIVE IdentityHashed(_), Hash(_), Eq(_, _)

\* the hash of the constraint depends on the identity of a node in it
IdentityHashed(c) ==
    CASE c.k = "None" -> FALSE
      [] c.k = "Predicate" -> FALSE
      [] c.k = "RelOp" -> ByIdentity(c.lhs) \/ ByIdentity(c.rhs)
      [] c.k = "BinaryLogicalOp" -> IdentityHashed(c.lhs) \/ IdentityHashed(c.rhs)
      [] c.k = "UnaryLogicalOp" -> IdentityHashed(c.constraint)

\* __hash__ of None, Predicate, RelOp, BinaryLogicalOp, UnaryLogicalOp
Hash(c) ==
    CASE c.k = "None" -> {<<"None">>}
      [] c.k = "Predicate" -> Xor({<<"str", c.name>>}, {<<"tuple", c.args>>})
      [] c.k = "RelOp" ->
            Xor(Xor(HashExpr(c.lhs), HashExpr(c.rhs)), {<<"str", MemberName(c.op)>>})
      [] c.k = "BinaryLogicalOp" ->
            Xor(Xor(Hash(c.lhs), Hash(c.rhs)), {<<"str", MemberName(c.op)>>})
      [] c.k = "UnaryLogicalOp" -> Xor({<<"str", "NOT">>}, Hash(c.constraint))

\* a.__eq__(b); RelOp and BinaryLogicalOp compare self.rhs with self.rhs
Eq(a, b) ==
    CASE a.k = "None" -> b.k = "None"
      [] a.k = "Predicate" -> b.k = "Predicate" /\ a.name = b.name /\ a.args = b.args
      [] a.k = "RelOp" -> b.k = "RelOp" /\ EqExpr(a.lhs, b.lhs) /\ a.op = b.op
      [] a.k = "BinaryLogicalOp" -> b.k = "BinaryLogicalOp" /\ Eq(a.lhs, b.lhs) /\ a.op = b.op
      [] a.k = "UnaryLogicalOp" -> b.k = "UnaryLogicalOp" /\ Eq(a.constraint, b.constraint)

\* node.constraints in s.rules: dict lookup, by hash and then by __eq__ of the stored key
InRules(c, rules) ==
    /\ ~IdentityHashed(c)
    /\ \E k \in 1..Len(rules) :
         /\ ~IdentityHashed(rules[k].guard)
         /\ Hash(rules[k].guard) = Hash(c)
         /\ Eq(rules[k].guard, c)

\* the Predicate nodes of a constraint: name and number of arguments of each
RECURSIVE PredicatesOf(_)
PredicatesOf(c) ==
    CASE c.k = "None" -> {}
      [] c.k = "Predicate" -> {<<c.name, Len(c.args)>>}
      [] c.k = "RelOp" -> {}
      [] c.k = "BinaryLogicalOp" -> PredicatesOf(c.lhs) \cup PredicatesOf(c.rhs)
      [] c.k = "UnaryLogicalOp" -> PredicatesOf(c.constraint)

----------------------------------------------------------------------------
(* The state machine *)

\* the chain of current_table: the open loops' tables, the Method's table, the global table
Chain == [k \in 1..Len(scopes) |-> scopes[Len(scopes) + 1 - k].table]
         \o <<symbol_table, global_table>>

\* the fields of the analyzer as the record Visit threads
Fields == [err |-> "none", t |-> NoneT, chain |-> Chain, iter |-> iterating_over,
           map |-> indices_mapping, nil |-> nil_nodes, qt |-> q_types,
           unbound |-> unbound_use]

\* SymbolTableBuilder.__init__: the math functions and q in the global table
InitialGlobalTable ==
    Put([f \in MATH_FUNCTIONS |-> FunctionSymbol(f)], "q", VariableSymbol(ArrayType(<<"Atom">>)))

Init ==
    /\ pc = "source"
    /\ error = "none"
    /\ entry = "none"
    /\ global_table = InitialGlobalTable
    /\ symbol_table = EmptyTable
    /\ scopes = <<>>
    /\ iterating_over = {}
    /\ indices_mapping = [n \in {} |-> ""]
    /\ nil_nodes = {}
    /\ q_types = {}
    /\ unbound_use = FALSE
    /\ predicates = {}
    /\ parent = [p \in {} |-> <<>>]
    /\ nodes = 0
    /\ last = [op |-> "none", err |-> "none"]

\* an exception leaves the compilation
Abort(e) ==
    /\ pc' = "failed"
    /\ error' = e

\* the walk goes on in the same phase, or from the annotations to the statements
GoOn(phase) ==
    /\ pc' = phase
    /\ error' = "none"

\* what the text of a source holds, as far as the parser's tree builder reads it:
\* text the grammar rejects, an atom Object with a decomposition, an EE expression
Sources == [syntax_error : BOOLEAN, atom_decomp : BOOLEAN, ee : BOOLEAN]

\* the exceptions Parser.visit can end with on a source the grammar accepts:
\* visitObjectAnnotation / visitFor_each raise CCLSyntaxError for a decomposed atom,
\* visitEEExpr calls ast.EE without ee_type and radius (TypeError)
ParserErrors(src) ==
    (IF src.atom_decomp THEN {"CCLSyntaxError"} ELSE {})
    \cup (IF src.ee THEN {"TypeError"} ELSE {})

\* process_source up to the call of create_from_ast
ProcessSource ==
    /\ pc = "source"
    /\ \E src \in Sources :
         /\ last' = [op |-> "process_source", src |-> src, err |-> "none"]
         /\ IF src.syntax_error THEN Abort("CCLSyntaxError")
            ELSE IF ParserErrors(src) # {} THEN \E e \in ParserErrors(src) : Abort(e)
            ELSE GoOn("annotations")
    /\ entry' = "process_source"
    /\ UNCHANGED <<global_table, symbol_table, scopes, iterating_over, indices_mapping,
                   nil_nodes, q_types, unbound_use, predicates, parent, nodes>>

\* SymbolTable.create_from_ast on a Method that was not built by the parser
CreateFromAst ==
    /\ pc = "source"
    /\ pc' = "annotations"
    /\ entry' = "create_from_ast"
    /\ last' = [op |-> "create_from_ast", err |-> "none"]
    /\ UNCHANGED <<error, global_table, symbol_table, scopes, iterating_over, indices_mapping,
                   nil_nodes, q_types, unbound_use, predicates, parent, nodes>>

----------------------------------------------------------------------------
(* The annotations the walk can meet (ccl/ast.py: Parameter, Object,        *)
(* Property, Constant, Substitution)                                        *)

Parameter(name, ptype) == [name |-> name, type |-> ptype]

\* atom_indices <<>> stands for None
Object(name, otype, atom_indices, constraints) ==
    [name |-> name, type |-> otype, atom_indices |-> atom_indices, constraints |-> constraints]

Property(name, prop) == [name |-> name, prop |-> prop]

Constant(name, prop, element) == [name |-> name, prop |-> prop, element |-> element]

Substitution(lhs, rhs, constraints) == [lhs |-> lhs, rhs |-> rhs, constraints |-> constraints]

ElementIsH == Predicate("element", <<Name("i"), Name("H")>>)

ChargePositive == RelOp(Subscript("q", <<"i">>), ">", Number("0", IntT))

IBeforeJ == BinaryLogicalOp(ElementIsH, "And", RelOp(Name("i"), "<", Name("j")))

JBeforeI == BinaryLogicalOp(ElementIsH, "And", RelOp(Name("j"), "<", Name("i")))

ParameterNodes ==
    {Parameter("A", AtomParameter), Parameter("A", CommonParameter), Parameter("q", AtomParameter)}

ObjectNodes ==
    {Object("i", AtomT, <<>>, NoConstraint),
     Object("b", BondT, <<>>, NoConstraint),
     Object("b", BondT, <<"i", "j">>, NoConstraint),
     Object("b", BondT, <<"j", "j">>, NoConstraint),
     Object("i", BondT, <<"i", "j">>, NoConstraint)}

PropertyNodes == {Property("e", "electronegativity"), Property("e", "polarizability")}

ConstantNodes ==
    {Constant("c", "electronegativity", "H"), Constant("c", "distance", "H"),
     Constant("c", "polarizability", "H")}

SubstitutionNodes ==
    {Substitution(lhs, rhs, g) :
        lhs \in {Name("s"), Name("A"), Subscript("s", <<"i">>), Subscript("s", <<"q">>)},
        rhs \in {Number("1.0", FloatT), Name("q")},
        g \in {NoConstraint, ElementIsH, ChargePositive, IBeforeJ, JBeforeI}}

\* the names an Object annotation or a For-each declares
DeclaredNames(node) == {node.name} \cup {node.atom_indices[k] : k \in 1..Len(node.atom_indices)}

----------------------------------------------------------------------------
(* SymbolTableBuilder: the annotations *)

\* a variant of visit_Parameter that defines the symbol in current_table itself
visit_Parameter_current ==
    /\ pc = "annotations"
    /\ nodes < MaxNodes
    /\ \E node \in ParameterNodes :
         LET err == IF Defined(Chain, node.name) THEN "CCLSymbolError" ELSE "none"
         IN /\ last' = [op |-> "Parameter", node |-> node, err |-> err,
                        defined |-> {n \in {node.name} : Defined(Chain, n)}]
            /\ IF err # "none"
               THEN Abort(err) /\ UNCHANGED symbol_table
               ELSE /\ GoOn("annotations")
                    /\ symbol_table' = Put(symbol_table, node.name, ParameterSymbol(node.type))
    /\ nodes' = nodes + 1
    /\ UNCHANGED <<predicates, parent, entry, global_table, scopes, iterating_over, indices_mapping,
                   nil_nodes, q_types, unbound_use>>

visit_Parameter ==
    /\ pc = "annotations"
    /\ nodes < MaxNodes
    /\ \E node \in ParameterNodes :
         LET err == IF Defined(<<global_table>>, node.name) THEN "CCLSymbolError" ELSE "none"
         IN /\ last' = [op |-> "Parameter", node |-> node, err |-> err,
                        defined |-> {n \in {node.name} : Defined(Chain, n)}]
            /\ IF err # "none"
               THEN Abort(err) /\ UNCHANGED global_table
               ELSE /\ GoOn("annotations")
                    /\ global_table' = Put(global_table, node.name, ParameterSymbol(node.type))
    /\ nodes' = nodes + 1
    /\ UNCHANGED <<predicates, parent, entry, symbol_table, scopes, iterating_over, indices_mapping,
                   nil_nodes, q_types, unbound_use>>

visit_Object ==
    /\ pc = "annotations"
    /\ nodes < MaxNodes
    /\ \E node \in ObjectNodes :
         LET i1 == node.atom_indices[1]
             i2 == node.atom_indices[2]
             t1 == IF node.atom_indices = <<>> THEN global_table
                   ELSE Put(global_table, i1, ObjectSymbol(AtomT, NoConstraint))
             t2 == IF node.atom_indices = <<>> THEN global_table
                   ELSE Put(t1, i2, ObjectSymbol(AtomT, NoConstraint))
             err == IF node.atom_indices # <<>> /\ (Defined(Chain, i1) \/ Defined(Chain, i2))
                    THEN "CCLSymbolError"
                    ELSE IF node.atom_indices # <<>> /\ Defined(<<t1>>, i2) THEN "CCLSymbolError"
                    ELSE IF Defined(<<t2>>, node.name) THEN "CCLSymbolError"
                    ELSE "none"
         IN /\ last' = [op |-> "Object", node |-> node, err |-> err,
                        defined |-> {n \in DeclaredNames(node) : Defined(Chain, n)}]
            /\ predicates' = predicates \cup PredicatesOf(node.constraints)
            /\ UNCHANGED parent
            /\ IF err # "none"
               THEN /\ Abort(err)
                    /\ global_table' =
                         IF node.atom_indices = <<>> \/ Defined(Chain, i1) \/ Defined(Chain, i2)
                         THEN global_table
                         ELSE IF Defined(<<t1>>, i2) THEN t1 ELSE t2
               ELSE /\ GoOn("annotations")
                    /\ global_table' =
                         Put(t2, node.name, ObjectSymbol(node.type, node.constraints))
    /\ nodes' = nodes + 1
    /\ UNCHANGED <<entry, symbol_table, scopes, iterating_over, indices_mapping,
                   nil_nodes, q_types, unbound_use>>

visit_Constant ==
    /\ pc = "annotations"
    /\ nodes < MaxNodes
    /\ \E node \in ConstantNodes :
         LET err == IF node.prop \notin FunctionNames THEN "CCLSymbolError"
                    ELSE IF Len(FUNCTIONS[node.prop].args) # 1
                            \/ FUNCTIONS[node.prop].args[1] # AtomT THEN "CCLTypeError"
                    ELSE IF Defined(<<global_table>>, node.name) THEN "CCLSymbolError"
                    ELSE "none"
         IN /\ last' = [op |-> "Constant", node |-> node, err |-> err,
                        defined |-> {n \in {node.name} : Defined(Chain, n)}]
            /\ IF err # "none"
               THEN Abort(err) /\ UNCHANGED global_table
               ELSE /\ GoOn("annotations")
                    /\ global_table' = Put(global_table, node.name, ConstantSymbol(node.prop))
    /\ nodes' = nodes + 1
    /\ UNCHANGED <<predicates, parent, entry, symbol_table, scopes, iterating_over, indices_mapping,
                   nil_nodes, q_types, unbound_use>>

visit_Property ==
    /\ pc = "annotations"
    /\ nodes < MaxNodes
    /\ \E node \in PropertyNodes :
         LET err == IF node.prop \notin FunctionNames THEN "CCLSymbolError"
                    ELSE IF Defined(<<global_table>>, node.name) THEN "CCLSymbolError"
                    ELSE "none"
         IN /\ last' = [op |-> "Property", node |-> node, err |-> err,
                        defined |-> {n \in {node.name} : Defined(Chain, n)}]
            /\ IF err # "none"
               THEN Abort(err) /\ UNCHANGED global_table
               ELSE /\ GoOn("annotations")
                    /\ global_table' = Put(global_table, node.name, FunctionSymbol(node.prop))
    /\ nodes' = nodes + 1
    /\ UNCHANGED <<predicates, parent, entry, symbol_table, scopes, iterating_over, indices_mapping,
                   nil_nodes, q_types, unbound_use>>

\* the outcome of visit_Substitution on a node, given what its name resolves to
SubstitutionError(node, s) ==
    LET indices == IF node.lhs.k = "Name" THEN <<>> ELSE node.lhs.indices
    IN IF node.lhs.k = "Name" /\ node.constraints # NoConstraint THEN "CCLSymbolError"
       ELSE IF s.kind = "None" THEN "none"
       ELSE IF s.kind # "Substitution" THEN "CCLSymbolError"
       ELSE IF indices # s.indices THEN "CCLSymbolError"
       ELSE IF InRules(node.constraints, s.rules) THEN "CCLTypeError"
       ELSE "none"

visit_Substitution ==
    /\ pc = "annotations"
    /\ nodes < MaxNodes
    /\ \E node \in SubstitutionNodes :
         LET name == IF node.lhs.k = "Name" THEN node.lhs.val ELSE node.lhs.name
             indices == IF node.lhs.k = "Name" THEN <<>> ELSE node.lhs.indices
             s == Resolve(Chain, name)
             rule == [guard |-> node.constraints, body |-> node.rhs]
             err == SubstitutionError(node, s)
         IN /\ last' = [op |-> "Substitution", node |-> node, name |-> name,
                        indices |-> indices, prior |-> s, err |-> err]
            /\ predicates' = predicates \cup PredicatesOf(node.constraints)
            /\ UNCHANGED parent
            /\ IF err # "none"
               THEN Abort(err) /\ UNCHANGED <<global_table, nil_nodes>>
               ELSE /\ GoOn("annotations")
                    /\ global_table' =
                         Put(global_table, name,
                             IF s.kind = "None" THEN SubstitutionSymbol(indices, <<rule>>)
                             ELSE [s EXCEPT !.rules = Append(@, rule)])
                    /\ nil_nodes' = nil_nodes \cup {"Substitution.lhs"}
    /\ nodes' = nodes + 1
    /\ UNCHANGED <<entry, symbol_table, scopes, iterating_over, indices_mapping,
                   q_types, unbound_use>>

----------------------------------------------------------------------------
(* The statements the walk can meet (ccl/ast.py: Assign, For, ForEach) *)

Zero == Number("0", IntT)

Half == Number("1.5", FloatT)

LhsNodes ==
    {Name("x"), Name("q"), Name("A"), Name("s"), Name("k"), Name("i"), Name("c"),
     Subscript("x", <<"i">>), Subscript("x", <<"b">>), Subscript("s", <<"i">>)}

\* right-hand sides the parser can build
ParsedRhsNodes ==
    {Zero, Half, Name("q"), Name("x"), Name("s"), Name("i"), Name("A"),
     Subscript("s", <<"i">>), Subscript("A", <<"i">>), Subscript("q", <<"i">>),
     UnaryOp(Name("q")), Function("exp", Half),
     BinaryOp(Name("q"), "*", Name("q")), BinaryOp(Name("q"), "^", Zero),
     Sum("i", Subscript("q", <<"i">>))}

\* right-hand sides with an EE node, which only a hand-built Method can hold
BuiltRhsNodes ==
    {EE("i", "j", Subscript("A", <<"i">>), Half, Subscript("q", <<"i">>)),
     EE("i", "j", Half, Half, Name("q"))}

RhsNodes(how) ==
    IF how = "create_from_ast" THEN ParsedRhsNodes \cup BuiltRhsNodes ELSE ParsedRhsNodes

ForNames == {"k"}

ForEach(name, otype, atom_indices, constraints) ==
    [name |-> name, type |-> otype, atom_indices |-> atom_indices, constraints |-> constraints]

ForEachNodes ==
    {ForEach("i", AtomT, <<>>, NoConstraint),
     ForEach("i", AtomT, <<>>, ElementIsH),
     ForEach("i", AtomT, <<>>, Predicate("heavy", <<Name("i")>>)),
     ForEach("b", BondT, <<"i", "j">>, NoConstraint),
     ForEach("b", BondT, <<"j", "j">>, NoConstraint),
     ForEach("i", BondT, <<"i", "j">>, NoConstraint)}

----------------------------------------------------------------------------
(* SymbolTableBuilder: the statements *)

\* the loops over node.lhs.indices of visit_Assign: [s, types]
RECURSIVE AssignIndices(_, _, _)
AssignIndices(indices, types, s) ==
    LET visited(r) ==
            IF Failed(r) THEN [s |-> r, types |-> types]
            ELSE AssignIndices(Tail(indices), Append(types, r.t), r)
    IN IF indices = <<>> THEN [s |-> s, types |-> types]
       ELSE visited(visit_Name(indices[1], s, {}))

\* what visit_Assign leaves: the fields (t is the type of the right-hand side)
\* and the Method's table
Outcome(s, table) == [s |-> s, table |-> table]

\* visit_Assign raises e after the right-hand side was typed
Rejected(s, rtype, e, table) == Outcome([Raise(s, e) EXCEPT !.t = rtype], table)

\* a variant of AssignName without the tests for a SubstitutionSymbol and a
\* ParameterSymbol: the types decide
AssignNameByTypes(lhs, r, s, method_table) ==
    IF s.kind # "None" THEN
        IF lhs.val \in r.iter THEN Rejected(r, r.t, "CCLTypeError", method_table)
        ELSE IF check_types(s.type, r.t)
             THEN Outcome([r EXCEPT !.qt = IF lhs.val = "q" THEN @ \cup {s.type} ELSE @],
                          method_table)
        ELSE Rejected(r, r.t, "CCLTypeError", method_table)
    ELSE Outcome(r, Put(method_table, lhs.val, VariableSymbol(r.t)))

\* visit_Assign, the left-hand side is a Name: r the fields after the right-hand
\* side, s what the name resolves to
AssignName(lhs, r, s, method_table) ==
    IF s.kind # "None" THEN
        IF lhs.val \in r.iter THEN Rejected(r, r.t, "CCLTypeError", method_table)
        ELSE IF s.kind = "Substitution" THEN Rejected(r, r.t, "CCLSymbolError", method_table)
        ELSE IF s.kind = "Parameter" THEN Rejected(r, r.t, "CCLSymbolError", method_table)
        ELSE IF check_types(s.type, r.t)
             THEN Outcome([r EXCEPT !.qt = IF lhs.val = "q" THEN @ \cup {s.type} ELSE @],
                          method_table)
        ELSE Rejected(r, r.t, "CCLTypeError", method_table)
    ELSE Outcome(r, Put(method_table, lhs.val, VariableSymbol(r.t)))

\* a variant of AssignSubscript that does not compare the shape of a bound Array
\* with the index types
AssignSubscriptAnyShape(lhs, r, s, ix, method_table) ==
    IF Failed(ix.s) THEN Outcome(ix.s, method_table)
    ELSE IF s.kind # "None" THEN
         IF s.kind = "Substitution" THEN Rejected(ix.s, r.t, "CCLSymbolError", method_table)
         ELSE IF ~IsArray(s.type) THEN Rejected(ix.s, r.t, "CCLTypeError", method_table)
         ELSE Outcome([ix.s EXCEPT !.t = r.t], method_table)
    ELSE IF \E k \in 1..Len(ix.types) : ~IsObject(ix.types[k])
         THEN Rejected(ix.s, r.t, "CCLTypeError", method_table)
    ELSE Outcome([ix.s EXCEPT !.t = r.t],
                 Put(method_table, lhs.name, VariableSymbol(ArrayType(Flatten(ix.types)))))

\* a variant of AssignSubscript that gives a new variable the type of the
\* right-hand side
AssignSubscriptRhsType(lhs, r, s, ix, method_table) ==
    IF Failed(ix.s) THEN Outcome(ix.s, method_table)
    ELSE IF s.kind # "None" THEN
         IF s.kind = "Substitution" THEN Rejected(ix.s, r.t, "CCLSymbolError", method_table)
         ELSE IF ~IsArray(s.type) \/ AsTypes(Indices(s.type)) # ix.types
              THEN Rejected(ix.s, r.t, "CCLTypeError", method_table)
         ELSE Outcome([ix.s EXCEPT !.t = r.t], method_table)
    ELSE IF \E k \in 1..Len(ix.types) : ~IsObject(ix.types[k])
         THEN Rejected(ix.s, r.t, "CCLTypeError", method_table)
    ELSE Outcome([ix.s EXCEPT !.t = r.t], Put(method_table, lhs.name, VariableSymbol(r.t)))

\* visit_Assign, the left-hand side is a Subscript: r the fields after the
\* right-hand side, s what the name resolves to, ix the first loop over the indices
AssignSubscript(lhs, r, s, ix, method_table) ==
    LET again(ix2) ==
            IF Failed(ix2.s) THEN Outcome(ix2.s, method_table)
            ELSE IF AsTypes(Indices(s.type)) # ix2.types
                 THEN Rejected(ix2.s, r.t, "CCLTypeError", method_table)
            ELSE Outcome([ix2.s EXCEPT !.t = r.t,
                                       !.qt = IF lhs.name = "q" THEN @ \cup {s.type} ELSE @],
                         method_table)
    IN IF Failed(ix.s) THEN Outcome(ix.s, method_table)
       ELSE IF s.kind # "None" THEN
            IF s.kind = "Substitution"
            THEN Rejected(ix.s, r.t, "CCLSymbolError", method_table)
            ELSE IF ~IsArray(s.type) THEN Rejected(ix.s, r.t, "CCLTypeError", method_table)
            ELSE again(AssignIndices(lhs.indices, <<>>, ix.s))
       ELSE IF \E k \in 1..Len(ix.types) : ~IsObject(ix.types[k])
            THEN Rejected(ix.s, r.t, "CCLTypeError", method_table)
       ELSE Outcome([ix.s EXCEPT !.t = r.t],
                    Put(method_table, lhs.name, VariableSymbol(ArrayType(Flatten(ix.types)))))

\* visit_Assign on the fields f with the Method's table
AssignOutcome(lhs, rhs, f, method_table) ==
    LET assigned(r) ==
            IF Failed(r) THEN Outcome(r, method_table)
            ELSE IF ~(IsNumeric(r.t) \/ IsArray(r.t))
                 THEN Rejected(r, r.t, "CCLTypeError", method_table)
            ELSE IF lhs.k = "Name"
                 THEN AssignName(lhs, r, Resolve(r.chain, lhs.val), method_table)
            ELSE AssignSubscript(lhs, r, Resolve(r.chain, lhs.name),
                                 AssignIndices(lhs.indices, <<>>, r), method_table)
    IN assigned(Visit(rhs, f, {}))

\* the indices of a Subscript on the left-hand side as visit_Name types them in
\* the fields f: [err, types]
LhsIndices(lhs, f) ==
    IF lhs.k # "Subscript" THEN [err |-> "none", types |-> <<>>]
    ELSE [err |-> AssignIndices(lhs.indices, <<>>, f).s.err,
          types |-> AssignIndices(lhs.indices, <<>>, f).types]

\* the name an assignment's left-hand side is about
LhsName(lhs) == IF lhs.k = "Name" THEN lhs.val ELSE lhs.name

visit_Assign ==
    /\ pc \in {"annotations", "statements"}
    /\ nodes < MaxNodes
    /\ \E lhs \in LhsNodes, rhs \in RhsNodes(entry) :
         \E out \in {AssignOutcome(lhs, rhs, Fields, symbol_table)} :
            /\ last' = [op |-> "Assign", lhs |-> lhs, name |-> LhsName(lhs),
                        prior |-> Resolve(Chain, LhsName(lhs)),
                        looped |-> LhsName(lhs) \in iterating_over,
                        rtype |-> out.s.t, err |-> out.s.err,
                        indices |-> LhsIndices(lhs, Fields), depth |-> Len(scopes)]
            /\ IF Failed(out.s)
               THEN /\ Abort(out.s.err)
                    /\ UNCHANGED <<symbol_table, iterating_over, indices_mapping,
                                   nil_nodes, q_types, unbound_use>>
               ELSE /\ GoOn("statements")
                    /\ symbol_table' = out.table
                    /\ iterating_over' = out.s.iter
                    /\ indices_mapping' = out.s.map
                    /\ nil_nodes' = out.s.nil
                    /\ q_types' = out.s.qt
                    /\ unbound_use' = out.s.unbound
    /\ nodes' = nodes + 1
    /\ UNCHANGED <<predicates, parent, entry, global_table, scopes>>

\* visit_For up to the loop over node.body
visit_For ==
    /\ pc \in {"annotations", "statements"}
    /\ nodes < MaxNodes
    /\ \E name \in ForNames :
         LET err == IF Defined(Chain, name) THEN "CCLSymbolError" ELSE "none"
         IN /\ last' = [op |-> "For", name |-> name, err |-> err,
                        defined |-> {n \in {name} : Defined(Chain, n)}]
            /\ IF err # "none"
               THEN Abort(err) /\ UNCHANGED <<scopes, iterating_over, nil_nodes>>
               ELSE /\ GoOn("statements")
                    /\ iterating_over' = iterating_over \cup {name}
                    /\ scopes' = Append(scopes,
                                        [kind |-> "For", name |-> name, bound |-> {name},
                                         parent |-> Len(scopes),
                                         table |-> Put(EmptyTable, name, VariableSymbol(IntT))])
                    /\ nil_nodes' = nil_nodes \cup {"For.name"}
    /\ nodes' = nodes + 1
    /\ UNCHANGED <<predicates, parent, entry, global_table, symbol_table, indices_mapping, q_types,
                   unbound_use>>

\* visit_For after the loop over node.body
EndFor ==
    /\ pc = "statements"
    /\ scopes # <<>>
    /\ scopes[Len(scopes)].kind = "For"
    /\ LET name == scopes[Len(scopes)].name
           err == IF name \notin iterating_over THEN "KeyError" ELSE "none"
       IN /\ last' = [op |-> "EndFor", name |-> name, bound |-> {name},
                      parent |-> scopes[Len(scopes)].parent, err |-> err]
          /\ IF err # "none"
             THEN Abort(err) /\ UNCHANGED <<scopes, iterating_over>>
             ELSE /\ GoOn("statements")
                  /\ iterating_over' = iterating_over \ {name}
                  /\ scopes' = SubSeq(scopes, 1, scopes[Len(scopes)].parent)
    /\ UNCHANGED <<predicates, parent, entry, global_table, symbol_table, indices_mapping, nil_nodes,
                   q_types, unbound_use, nodes>>

\* a variant of ForEachError that looks at the loop's name only
ForEachErrorName(node, chain) ==
    IF Defined(chain, node.name) THEN "CCLSymbolError" ELSE "none"

\* the exception visit_ForEach raises on the node, with chain the current table
\* and its parents: the resolve calls, then the three define calls on the new table
ForEachError(node, chain) ==
    IF Defined(chain, node.name) THEN "CCLSymbolError"
    ELSE IF node.atom_indices # <<>>
            /\ (Defined(chain, node.atom_indices[1]) \/ Defined(chain, node.atom_indices[2]))
         THEN "CCLSymbolError"
    ELSE IF node.atom_indices # <<>> /\ node.atom_indices[1] = node.atom_indices[2]
         THEN "CCLSymbolError"
    ELSE IF \E k \in 1..Len(node.atom_indices) : node.name = node.atom_indices[k]
         THEN "CCLSymbolError"
    ELSE "none"

\* visit_ForEach up to the loop over node.body
visit_ForEach ==
    /\ pc \in {"annotations", "statements"}
    /\ nodes < MaxNodes
    /\ \E node \in ForEachNodes :
         LET i1 == node.atom_indices[1]
             i2 == node.atom_indices[2]
             atom_indices == IF node.atom_indices = <<>> THEN {} ELSE {i1, i2}
             t2 == IF node.atom_indices = <<>> THEN EmptyTable
                   ELSE Put(Put(EmptyTable, i1, ObjectSymbol(AtomT, NoConstraint)),
                            i2, ObjectSymbol(AtomT, NoConstraint))
             err == ForEachError(node, Chain)
         IN /\ last' = [op |-> "ForEach", node |-> node, err |-> err,
                        defined |-> {n \in DeclaredNames(node) : Defined(Chain, n)}]
            /\ predicates' = predicates \cup PredicatesOf(node.constraints)
            /\ UNCHANGED parent
            /\ IF err # "none"
               THEN Abort(err) /\ UNCHANGED <<scopes, iterating_over, nil_nodes>>
               ELSE /\ GoOn("statements")
                    /\ iterating_over' = iterating_over \cup atom_indices \cup {node.name}
                    /\ scopes' = Append(scopes,
                                        [kind |-> "ForEach", name |-> node.name,
                                         bound |-> atom_indices \cup {node.name},
                                         parent |-> Len(scopes),
                                         table |-> Put(t2, node.name,
                                                       ObjectSymbol(node.type, node.constraints))])
                    /\ nil_nodes' = nil_nodes \cup {"ForEach.name"}
                                    \cup (IF node.constraints # NoConstraint
                                          THEN {"ForEach.constraints"} ELSE {})
    /\ nodes' = nodes + 1
    /\ UNCHANGED <<entry, global_table, symbol_table, indices_mapping, q_types, unbound_use>>

\* a variant of EndForEach that leaves the loop's table the current one
EndForEachInside ==
    /\ pc = "statements"
    /\ scopes # <<>>
    /\ scopes[Len(scopes)].kind = "ForEach"
    /\ last' = [op |-> "EndForEach", name |-> scopes[Len(scopes)].name,
                bound |-> scopes[Len(scopes)].bound,
                parent |-> scopes[Len(scopes)].parent, err |-> "none"]
    /\ iterating_over' = iterating_over \ scopes[Len(scopes)].bound
    /\ scopes' = [scopes EXCEPT ![Len(scopes)].kind = "Method"]
    /\ UNCHANGED <<pc, error, entry, global_table, symbol_table, indices_mapping, nil_nodes,
                   q_types, unbound_use, predicates, parent, nodes>>

\* visit_ForEach after the loop over node.body
EndForEach ==
    /\ pc = "statements"
    /\ scopes # <<>>
    /\ scopes[Len(scopes)].kind = "ForEach"
    /\ last' = [op |-> "EndForEach", name |-> scopes[Len(scopes)].name,
                bound |-> scopes[Len(scopes)].bound,
                parent |-> scopes[Len(scopes)].parent, err |-> "none"]
    /\ iterating_over' = iterating_over \ scopes[Len(scopes)].bound
    /\ scopes' = SubSeq(scopes, 1, scopes[Len(scopes)].parent)
    /\ UNCHANGED <<pc, error, entry, global_table, symbol_table, indices_mapping, nil_nodes,
                   q_types, unbound_use, predicates, parent, nodes>>

\* visit_Method after the loops over the annotations and the statements
EndMethod ==
    /\ pc \in {"annotations", "statements"}
    /\ scopes = <<>>
    /\ LET err == IF MissingDefault(global_table) THEN "CCLSymbolError" ELSE "none"
       IN /\ last' = [op |-> "check_substitutions_default", err |-> err]
          /\ IF err # "none" THEN Abort(err) ELSE GoOn("done")
    /\ UNCHANGED <<predicates, parent, entry, global_table, symbol_table, scopes, iterating_over, indices_mapping,
                   nil_nodes, q_types, unbound_use, nodes>>

Next ==
    \/ ProcessSource
    \/ CreateFromAst
    \/ visit_Parameter
    \/ visit_Object
    \/ visit_Constant
    \/ visit_Property
    \/ visit_Substitution
    \/ visit_Assign
    \/ visit_For
    \/ EndFor
    \/ visit_ForEach
    \/ EndForEach
    \/ EndMethod

Spec == Init /\ [][Next]_vars

----------------------------------------------------------------------------
(* visit_BinaryOp as a function of the operator and the operand types:     *)
(* the operand types are drawn at the start, one step types the node        *)

\* arrays have at most MaxDim indices
MaxDim == 3

\* ObjectType
ObjectTypes == {"Atom", "Bond"}

\* the index tuples of length n
RECURSIVE Shapes(_)
Shapes(n) ==
    IF n = 0 THEN {<<>>}
    ELSE {Append(shape, o) : shape \in Shapes(n - 1), o \in ObjectTypes}

ArrayTypes == {ArrayType(shape) : shape \in UNION {Shapes(n) : n \in 1..MaxDim}}

\* the result types an operand of a BinaryOp can carry
OperandTypes ==
    {IntT, FloatT, AtomT, BondT, AtomParameter, BondParameter, CommonParameter} \cup ArrayTypes

InitBinaryOp ==
    /\ pc = "operands"
    /\ error = "none"
    /\ entry = "visit_BinaryOp"
    /\ global_table = InitialGlobalTable
    /\ symbol_table = EmptyTable
    /\ scopes = <<>>
    /\ iterating_over = {}
    /\ indices_mapping = [n \in {} |-> ""]
    /\ nil_nodes = {}
    /\ q_types = {}
    /\ unbound_use = FALSE
    /\ predicates = {}
    /\ parent = [p \in {} |-> <<>>]
    /\ nodes = 0
    /\ \E op \in Ops, ltype \in OperandTypes, rtype \in OperandTypes :
         last = [op |-> "operands", bop |-> op, ltype |-> ltype, rtype |-> rtype,
                 err |-> "none"]

\* visit_BinaryOp after its operands were visited
TypeBinaryOp ==
    /\ pc = "operands"
    /\ \E t \in {BinaryOpType(last.bop, last.ltype, last.rtype)} :
         /\ last' = [op |-> "BinaryOp", bop |-> last.bop, ltype |-> last.ltype,
                     rtype |-> last.rtype, result |-> t,
                     err |-> IF t = RaisedTypeError THEN "CCLTypeError" ELSE "none"]
         /\ IF t = RaisedTypeError THEN Abort("CCLTypeError") ELSE GoOn("typed")
         /\ nil_nodes' = IF t = NoneT THEN {"BinaryOp"} ELSE {}
    /\ UNCHANGED <<predicates, parent, entry, global_table, symbol_table, scopes, iterating_over,
                   indices_mapping, q_types, unbound_use, nodes>>

NextBinaryOp == TypeBinaryOp

SpecBinaryOp == InitBinaryOp /\ [][NextBinaryOp]_vars

----------------------------------------------------------------------------
(* ASTVisitor.visit on one expression, in a state the analyzer is in after  *)
(* some annotations and loop headers: the state and the expression are      *)
(* drawn at the start, one step types the expression                        *)

\* the global table after the annotations of atom parameters A and B, a bond
\* parameter K, a common parameter C and the property R (distance)
Annotated ==
    Put(Put(Put(Put(Put(InitialGlobalTable,
        "A", ParameterSymbol(AtomParameter)),
        "B", ParameterSymbol(AtomParameter)),
        "K", ParameterSymbol(BondParameter)),
        "C", ParameterSymbol(CommonParameter)),
        "R", FunctionSymbol("distance"))

\* the same after the Object annotations of the atoms i and j and the bond b
AnnotatedObjects ==
    Put(Put(Put(Annotated,
        "i", ObjectSymbol(AtomT, NoConstraint)),
        "j", ObjectSymbol(AtomT, NoConstraint)),
        "b", ObjectSymbol(BondT, NoConstraint))

\* a rule of a SubstitutionSymbol
Rule(guard, body) == [guard |-> guard, body |-> body]

\* the global table after the Substitution annotations
\*   s[i] = A[i] if element(i, H)     s[i] = B[i]
\*   b[i] = A[i]     a[i] = b[i]     c[j] = A[j]     d[i] = c[i]
\*   g[i] = A[i] if element(i, H)
Substituted ==
    Put(Put(Put(Put(Put(Put(Annotated,
        "g", SubstitutionSymbol(<<"i">>, <<Rule(ElementIsH, Subscript("A", <<"i">>))>>)),
        "s", SubstitutionSymbol(<<"i">>, <<Rule(ElementIsH, Subscript("A", <<"i">>)),
                                          Rule(NoConstraint, Subscript("B", <<"i">>))>>)),
        "b", SubstitutionSymbol(<<"i">>, <<Rule(NoConstraint, Subscript("A", <<"i">>))>>)),
        "a", SubstitutionSymbol(<<"i">>, <<Rule(NoConstraint, Subscript("b", <<"i">>))>>)),
        "c", SubstitutionSymbol(<<"j">>, <<Rule(NoConstraint, Subscript("A", <<"j">>))>>)),
        "d", SubstitutionSymbol(<<"i">>, <<Rule(NoConstraint, Subscript("c", <<"i">>))>>))

\* what visit_ForEach leaves for the loop it entered: the loop's table, its
\* parent (the number of loops open around it), the names it bound
ForEachScope(node, outer) ==
    [kind |-> "ForEach", name |-> node.name, parent |-> outer,
     bound |-> {node.name} \cup {node.atom_indices[k] : k \in 1..Len(node.atom_indices)},
     table |-> Put(IF node.atom_indices = <<>> THEN EmptyTable
                   ELSE Put(Put(EmptyTable, node.atom_indices[1], ObjectSymbol(AtomT, NoConstraint)),
                            node.atom_indices[2], ObjectSymbol(AtomT, NoConstraint)),
                   node.name, ObjectSymbol(node.type, node.constraints))]

\* the states of the analyzer an expression is visited in
Environment(name) ==
    CASE name = "annotations" ->
            [global |-> Annotated, method |-> EmptyTable, scopes |-> <<>>, iter |-> {}]
      [] name = "objects" ->
            [global |-> AnnotatedObjects, method |-> EmptyTable, scopes |-> <<>>, iter |-> {}]
      [] name = "bond loop" ->
            [global |-> Annotated, method |-> EmptyTable,
             scopes |-> <<ForEachScope(ForEach("b", BondT, <<"i", "j">>, NoConstraint), 0)>>,
             iter |-> {"b", "i", "j"}]
      [] name = "sums" ->
            [global |-> Put(Put(Substituted, "i", ObjectSymbol(AtomT, NoConstraint)),
                            "k", ObjectSymbol(BondT, NoConstraint)),
             method |-> Put(EmptyTable, "x", VariableSymbol(FloatT)),
             scopes |-> <<>>, iter |-> {}]
      [] name \in {"loop x", "loop i"} ->
            [global |-> Substituted, method |-> EmptyTable,
             scopes |-> <<ForEachScope(ForEach(IF name = "loop x" THEN "x" ELSE "i",
                                               AtomT, <<>>, NoConstraint), 0)>>,
             iter |-> {IF name = "loop x" THEN "x" ELSE "i"}]

EnvironmentNames == {"annotations", "objects", "bond loop", "loop x", "loop i", "sums"}

\* Subscripts on the substitutions, with the loop's name as index
SubstitutionSubscripts(index) == {Subscript(n, <<index>>) : n \in {"s", "b", "a", "c", "d"}}

\* the index tuples of a Subscript: one or two of the names
IndexNames == {"i", "j", "b", "q"}

IndexTuples == {<<n>> : n \in IndexNames} \cup {<<n, m>> : n \in IndexNames, m \in IndexNames}

\* Subscripts on the parameters
ParameterSubscripts == {Subscript(p, ix) : p \in {"A", "K", "C"}, ix \in IndexTuples}

\* the diagonal, off-diagonal and right-hand-side expressions of the EE nodes:
\* of type Float, Int, Array, Float, Atom and Atom Parameter
EEParts == {Half, Zero, Name("q"), Subscript("A", <<"i">>), Name("i"), Name("A")}

\* EE nodes over the indices i and j, as a hand-built Method can hold them
EENodes == {EE("i", "j", d, o, r) : d \in EEParts, o \in EEParts, r \in EEParts}

\* EE[row i, col j, diag A[i], off 1 / R[i, j], rhs -B[i]]
EEM ==
    EE("i", "j", Subscript("A", <<"i">>),
       BinaryOp(Number("1", IntT), "/", Subscript("R", <<"i", "j">>)),
       UnaryOp(Subscript("B", <<"i">>)))

\* Sum nodes: over an atom, a bond, substitutions with and without a default
\* rule, a parameter, a function, a variable and a name that is not defined
SumNames == {"i", "k", "s", "g", "A", "R", "x", "z"}

SumNodes ==
    {Sum(n, e) : n \in SumNames,
                 e \in {Half, Zero, Name("x"), Subscript("A", <<"i">>),
                        Subscript("K", <<"k">>), Subscript("s", <<"i">>)}}

\* Sums over a name that a loop or a Sum around them is iterating over, and an
\* EE whose diagonal part is a Sum over its column index
NestedSums(name) ==
    {Sum(name, e) : e \in {Half, Subscript("A", <<name>>), Sum(name, Subscript("A", <<name>>))}}
      \cup {EE("r", "u", Sum("u", Subscript("A", <<"u">>)), Half, Half)}

\* the expressions visited in an environment
VisitNodes(name) ==
    CASE name = "annotations" -> {Subscript("A", <<"i">>), EEM} \cup EENodes
      [] name = "objects" -> ParameterSubscripts \cup {EEM}
      [] name = "bond loop" -> ParameterSubscripts
      [] name = "sums" -> SumNodes \cup NestedSums("i")
      [] name = "loop x" -> SubstitutionSubscripts("x")
      [] name = "loop i" -> SubstitutionSubscripts("i") \cup NestedSums("i")

\* _indices_mapping when the visit starts: empty in a statement, the formal index
\* i renamed to the loop's name in a rule of a substitution used in the loop
EntryMappings(name) ==
    {[n \in {} |-> ""]}
      \cup (IF name \in {"loop x", "loop i"}
            THEN {"i" :> (IF name = "loop x" THEN "x" ELSE "i")} ELSE {})

InitVisit ==
    /\ pc = "expression"
    /\ error = "none"
    /\ entry = "visit"
    /\ nil_nodes = {}
    /\ q_types = {}
    /\ unbound_use = FALSE
    /\ predicates = {}
    /\ parent = [p \in {} |-> <<>>]
    /\ nodes = 0
    /\ \E name \in EnvironmentNames :
         /\ global_table = Environment(name).global
         /\ symbol_table = Environment(name).method
         /\ scopes = Environment(name).scopes
         /\ iterating_over = Environment(name).iter
         /\ indices_mapping \in EntryMappings(name)
         /\ \E node \in VisitNodes(name) :
              last = [op |-> "expression", env |-> name, node |-> node, err |-> "none"]

\* self.visit(node) on the expression
VisitExpression ==
    /\ pc = "expression"
    /\ \E out \in {Visit(last.node, Fields, {})} :
         /\ last' = [op |-> "Visit", env |-> last.env, node |-> last.node,
                     t |-> out.t, chain |-> out.chain, err |-> out.err,
                     mapping |-> indices_mapping]
         /\ IF Failed(out)
            THEN /\ Abort(out.err)
                 /\ UNCHANGED <<iterating_over, indices_mapping, nil_nodes, q_types,
                                unbound_use>>
            ELSE /\ GoOn("typed")
                 /\ iterating_over' = out.iter
                 /\ indices_mapping' = out.map
                 /\ nil_nodes' = out.nil
                 /\ q_types' = out.qt
                 /\ unbound_use' = out.unbound
    /\ UNCHANGED <<predicates, parent, entry, global_table, symbol_table, scopes, nodes>>

NextVisit == VisitExpression

SpecVisit == InitVisit /\ [][NextVisit]_vars

----------------------------------------------------------------------------
(* ccl/parser.py and ccl/ast.py: a parsed Method and the parent links.      *)
(* An object has a class and items: for an ASTNode the values of its        *)
(* attributes in the order of __dict__, line, column and parent left out;   *)
(* for a list or a tuple its elements; for any other value none.            *)

PyObject(class, items) == [class |-> class, items |-> items]

\* a str, None ("NoneType"), a member of an Enum, an int or a float ("number")
Value(class) == PyObject(class, <<>>)

\* a variant of IsContainer that knows lists only
IsList(o) == o.class = "list"

\* isinstance(value, (list, tuple))
IsContainer(o) == o.class \in {"list", "tuple"}

\* isinstance(value, ASTNode)
IsASTNode(o) == o.class \notin {"list", "tuple", "str", "NoneType", "Enum", "number"}

\* the object the Parser builds for an expression or a constraint of the model:
\* an Expression starts with _result_type; the name and the indices of a
\* Subscript and the name of a Sum are Name nodes
RECURSIVE Parsed(_)
Parsed(node) ==
    LET name(val) == PyObject("Name", <<Value("NoneType"), Value("str")>>)
    IN CASE node.k = "None" -> Value("NoneType")
         [] node.k = "Number" -> PyObject("Number", <<Value("Enum"), Value("number")>>)
         [] node.k = "Name" -> name(node.val)
         [] node.k = "Subscript" ->
                PyObject("Subscript",
                         <<Value("NoneType"), name(node.name),
                           PyObject("tuple", [k \in 1..Len(node.indices) |-> name(node.indices[k])])>>)
         [] node.k = "BinaryOp" ->
                PyObject("BinaryOp",
                         <<Value("NoneType"), Parsed(node.left), Parsed(node.right), Value("Enum")>>)
         [] node.k = "UnaryOp" ->
                PyObject("UnaryOp", <<Value("NoneType"), Value("Enum"), Parsed(node.expr)>>)
         [] node.k = "Sum" ->
                PyObject("Sum", <<Value("NoneType"), name(node.name), Parsed(node.expr)>>)
         [] node.k = "Function" ->
                PyObject("Function", <<Value("NoneType"), Value("str"), Parsed(node.arg)>>)
         [] node.k = "Predicate" ->
                PyObject("Predicate",
                         <<Value("str"),
                           PyObject("tuple", [k \in 1..Len(node.args) |-> Parsed(node.args[k])])>>)
         [] node.k = "RelOp" ->
                PyObject("RelOp", <<Parsed(node.lhs), Parsed(node.rhs), Value("Enum")>>)
         [] node.k = "BinaryLogicalOp" ->
                PyObject("BinaryLogicalOp", <<Parsed(node.lhs), Parsed(node.rhs), Value("Enum")>>)
         [] node.k = "UnaryLogicalOp" ->
                PyObject("UnaryLogicalOp", <<Value("Enum"), Parsed(node.constraint)>>)

\* atom_indices: a tuple of two str, or None
ParsedAtomIndices(atom_indices) ==
    IF atom_indices = <<>> THEN Value("NoneType")
    ELSE PyObject("tuple", [k \in 1..Len(atom_indices) |-> Value("str")])

\* the object the Parser builds for an annotation of the model
ParsedAnnotation(class, node) ==
    CASE class = "Parameter" -> PyObject(class, <<Value("str"), Value("Enum")>>)
      [] class = "Object" ->
            PyObject(class, <<Value("str"), Value("Enum"), ParsedAtomIndices(node.atom_indices),
                              Parsed(node.constraints)>>)
      [] class = "Property" -> PyObject(class, <<Value("str"), Value("str")>>)
      [] class = "Constant" -> PyObject(class, <<Value("str"), Value("str"), Value("str")>>)
      [] class = "Substitution" ->
            PyObject(class, <<Parsed(node.lhs), Parsed(node.rhs), Parsed(node.constraints)>>)

\* the object the Parser builds for a statement of the model: an Assign with
\* lhs and rhs, a For with its name, a ForEach; body is the list of the
\* statements of a loop
ParsedStatement(class, node, body) ==
    CASE class = "Assign" -> PyObject(class, <<Parsed(node.lhs), Parsed(node.rhs)>>)
      [] class = "For" ->
            PyObject(class, <<Parsed(Name(node.name)), Parsed(Zero), Parsed(Zero),
                              PyObject("list", body)>>)
      [] class = "ForEach" ->
            PyObject(class, <<Parsed(Name(node.name)), Value("Enum"),
                              ParsedAtomIndices(node.atom_indices), Parsed(node.constraints),
                              PyObject("list", body)>>)

ParsedMethod(annotations, statements) ==
    PyObject("Method", <<PyObject("list", statements), PyObject("list", annotations),
                         Value("str")>>)

\* the annotations and the statements of the parsed Methods
ParsedAnnotations ==
    {ParsedAnnotation("Parameter", Parameter("A", AtomParameter)),
     ParsedAnnotation("Object", Object("b", BondT, <<"i", "j">>, IBeforeJ)),
     ParsedAnnotation("Constant", Constant("c", "electronegativity", "H")),
     ParsedAnnotation("Substitution",
                      Substitution(Subscript("s", <<"i">>), Name("q"), ChargePositive))}

ParsedAssignments ==
    {ParsedStatement("Assign", [lhs |-> lhs, rhs |-> rhs], <<>>) :
        lhs \in {Name("x"), Subscript("x", <<"i", "j">>)},
        rhs \in {Half, Sum("i", Subscript("q", <<"i">>)),
                 BinaryOp(UnaryOp(Name("q")), "*", Function("exp", Half))}}

ParsedLoops ==
    {ParsedStatement("For", [name |-> "k"], <<s>>) : s \in ParsedAssignments}
      \cup {ParsedStatement("ForEach", node, <<s>>) :
               node \in {ForEach("i", AtomT, <<>>, ElementIsH),
                         ForEach("b", BondT, <<"i", "j">>, NoConstraint)},
               s \in ParsedAssignments}

Methods ==
    {ParsedMethod(<<>>, <<>>)}
      \cup {ParsedMethod(<<a>>, <<s>>) :
               a \in ParsedAnnotations, s \in ParsedAssignments \cup ParsedLoops}
      \cup {ParsedMethod(<<>>, <<ParsedStatement("For", [name |-> "k"], <<l, s>>)>>) :
               l \in ParsedLoops, s \in ParsedAssignments}

\* set_parent_nodes(node), node at path: the parent links it sets, a later
\* assignment to the parent of a node replacing an earlier one
RECURSIVE set_parent_nodes(_, _)
RECURSIVE SetParentValues(_, _, _)
RECURSIVE SetParentItems(_, _, _, _)

\* for item in value, from the i-th item on: value is at path at, held by the
\* node at path
SetParentItems(value, path, at, i) ==
    IF i > Len(value.items) THEN [p \in {} |-> <<>>]
    ELSE SetParentItems(value, path, at, i + 1)
           @@ (IF IsASTNode(value.items[i])
               THEN set_parent_nodes(value.items[i], Append(at, i)) @@ (Append(at, i) :> path)
               ELSE [p \in {} |-> <<>>])

\* for _, value in node, from the k-th attribute on
SetParentValues(node, path, k) ==
    IF k > Len(node.items) THEN [p \in {} |-> <<>>]
    ELSE SetParentValues(node, path, k + 1)
           @@ (IF IsContainer(node.items[k])
               THEN SetParentItems(node.items[k], path, Append(path, k), 1)
               ELSE IF IsASTNode(node.items[k])
               THEN set_parent_nodes(node.items[k], Append(path, k)) @@ (Append(path, k) :> path)
               ELSE [p \in {} |-> <<>>])

set_parent_nodes(node, path) == SetParentValues(node, path, 1)

\* Parser.visitMethod has built the Method
InitParents ==
    /\ pc = "method"
    /\ error = "none"
    /\ entry = "process_source"
    /\ global_table = EmptyTable
    /\ symbol_table = EmptyTable
    /\ scopes = <<>>
    /\ iterating_over = {}
    /\ indices_mapping = [n \in {} |-> ""]
    /\ nil_nodes = {}
    /\ q_types = {}
    /\ unbound_use = FALSE
    /\ predicates = {}
    /\ parent = [p \in {} |-> <<>>]
    /\ nodes = 0
    /\ \E method \in Methods : last = [op |-> "Method", method |-> method, err |-> "none"]

\* Parser.visitMethod: ast.set_parent_nodes(method), return method
visitMethod ==
    /\ pc = "method"
    /\ parent' = set_parent_nodes(last.method, <<>>) @@ parent
    /\ last' = [op |-> "set_parent_nodes", method |-> last.method, err |-> "none"]
    /\ GoOn("parsed")
    /\ UNCHANGED <<entry, global_table, symbol_table, scopes, iterating_over, indices_mapping,
                   nil_nodes, q_types, unbound_use, predicates, nodes>>

SpecParents == InitParents /\ [][visitMethod]_vars

----------------------------------------------------------------------------
(* ccl/complexity.py.  A cost is the polynomial in N and M its string       *)
(* denotes: a function from the exponents <<n, m>> of its monomials N^n M^m *)
(* to their coefficients.  A visit gives [err, cost].                       *)

\* '0'
NoCost == [e \in {} |-> 0]

\* the monomial N^n M^m; Monomial(0, 0) is '1', Monomial(3, 0) is 'N ** 3'
Monomial(n, m) == (<<n, m>> :> 1)

\* p + q
PolyAdd(p, q) ==
    [e \in DOMAIN p \cup DOMAIN q |->
        (IF e \in DOMAIN p THEN p[e] ELSE 0) + (IF e \in DOMAIN q THEN q[e] ELSE 0)]

\* c * N^e[1] M^e[2] * (p), terms with coefficient 0 dropped
Times(c, e, p) ==
    [d \in {<<x[1] + e[1], x[2] + e[2]>> : x \in {y \in DOMAIN p : c * p[y] # 0}} |->
        c * p[<<d[1] - e[1], d[2] - e[2]>>]]

\* the exponents of 'N' and of 'M'
OBJECT_COMPLEXITY == [t \in {AtomT, BondT} |-> IF t = AtomT THEN <<1, 0>> ELSE <<0, 1>>]

\* ' * '.join(OBJECT_COMPLEXITY[idx] for idx in indices)
ShapeCost(indices) ==
    Monomial(Cardinality({k \in 1..Len(indices) : indices[k] = "Atom"}),
             Cardinality({k \in 1..Len(indices) : indices[k] = "Bond"}))

\* s.symbol_type, the attribute without a call: the bound method of the symbol
BoundMethod(sym) == <<"method", sym.kind>>

Costs(p) == [err |-> "none", cost |-> p]

CostError(e) == [err |-> e, cost |-> NoCost]

\* ' + '.join of two parts, the first evaluated first
Plus(a, b) ==
    IF a.err # "none" THEN a ELSE IF b.err # "none" THEN b
    ELSE Costs(PolyAdd(a.cost, b.cost))

\* a statement of a compiled Method: an Assign (lhs, rhs), a For (name,
\* value_from and value_to as the numbers' values, body), a ForEach (name, type,
\* atom_indices, constraints, body)
Statement(class, node, body) == [k |-> class, body |-> body] @@ node

\* result_type as the analyzer left it on a node met in the scope chain scope
ResultType(node, scope) ==
    Visit(node, [err |-> "none", t |-> NoneT, chain |-> scope,
                 iter |-> UNION {DOMAIN scope[k] : k \in 1..Len(scope)},
                 map |-> [n \in {} |-> ""], nil |-> {}, qt |-> {}, unbound |-> FALSE], {}).t

\* the last part of visit_BinaryOp: the cost of the operation itself
BinaryOpCost(op, ltype, rtype) ==
    IF IsNumeric(ltype) /\ IsNumeric(rtype) THEN Costs(Monomial(0, 0))
    ELSE IF IsArray(ltype) /\ IsArray(rtype)
    THEN IF op \in {"+", "-"} THEN Costs(ShapeCost(Indices(ltype)))
         ELSE IF op # "*" THEN Costs(NoCost)
         ELSE IF dim(ltype) = 1 /\ dim(rtype) = 1 THEN Costs(ShapeCost(<<Indices(ltype)[1]>>))
         ELSE IF {dim(ltype), dim(rtype)} = {1, 2}
         THEN Costs(ShapeCost(<<Indices(ltype)[1],
                                IF dim(ltype) = 1 THEN Indices(rtype)[2] ELSE Indices(rtype)[1]>>))
         ELSE IF dim(rtype) < 2 THEN CostError("IndexError")
         ELSE Costs(ShapeCost(Append(Indices(ltype), Indices(rtype)[2])))
    ELSE IF IsNumeric(ltype)
    THEN IF IsArray(rtype) THEN Costs(ShapeCost(Indices(rtype))) ELSE CostError("AttributeError")
    ELSE IF IsArray(ltype) THEN Costs(ShapeCost(Indices(ltype))) ELSE CostError("AttributeError")

\* Complexity.visit(node): c.table is self.symbol_table with its parents, c.scope
\* the scope chain the node was analysed in
RECURSIVE Complexity(_, _)
RECURSIVE ComplexityOfAll(_, _)
RECURSIVE process_substitution(_, _)

\* ' + '.join(self.visit(statement) for statement in body)
ComplexityOfAll(body, c) ==
    IF body = <<>> THEN Costs(NoCost)
    ELSE Plus(Complexity(Head(body), c), ComplexityOfAll(Tail(body), c))

process_substitution(rules, c) ==
    IF rules = <<>> THEN Costs(NoCost)
    ELSE Plus(Plus(IF Head(rules).guard.k = "None" THEN Costs(NoCost)
                   ELSE Complexity(Head(rules).guard, c),
                   Complexity(Head(rules).body, c)),
              process_substitution(Tail(rules), c))

Complexity(node, c) ==
    LET s == Resolve(c.table, IF node.k \in {"Name"} THEN node.val
                              ELSE IF node.k = "Assign" THEN
                                   (IF node.lhs.k = "Name" THEN node.lhs.val ELSE node.lhs.name)
                              ELSE node.name)
        scaled(e, a) == IF a.err # "none" THEN a ELSE Costs(Times(1, e, a.cost))
        inner(table) == [c EXCEPT !.scope = <<table>> \o @]
        constraints(sym) ==
            IF sym.constraints.k = "None" THEN Costs(NoCost) ELSE Complexity(sym.constraints, c)
    IN CASE node.k = "Number" -> Costs(NoCost)
         [] node.k \in {"Name", "Subscript"} ->
                IF s.kind = "Substitution" THEN process_substitution(s.rules, c) ELSE Costs(NoCost)
         [] node.k = "Assign" ->
                Plus(IF node.lhs.k # "Name" THEN Costs(Monomial(0, 0))
                     ELSE IF s.kind = "None" THEN CostError("AttributeError")
                     ELSE IF IsArray(BoundMethod(s)) THEN Costs(ShapeCost(Indices(s.type)))
                     ELSE Costs(Monomial(0, 0)),
                     Complexity(node.rhs, c))
         [] node.k = "For" ->
                LET body == ComplexityOfAll(node.body,
                                inner(Put(EmptyTable, node.name, VariableSymbol(IntT))))
                IN IF body.err # "none" THEN body
                   ELSE Costs(Times(node.value_to - node.value_from, <<0, 0>>, body.cost))
         [] node.k = "ForEach" ->
                scaled(OBJECT_COMPLEXITY[node.type],
                       Plus(ComplexityOfAll(node.body, inner(ForEachScope(node, 0).table)),
                            constraints(ObjectSymbol(node.type, node.constraints))))
         [] node.k = "Sum" ->
                IF s.kind = "None" THEN CostError("AttributeError")
                ELSE IF BoundMethod(s) \notin DOMAIN OBJECT_COMPLEXITY THEN CostError("KeyError")
                ELSE IF s.kind # "Object" THEN CostError("AssertionError")
                ELSE scaled(OBJECT_COMPLEXITY[BoundMethod(s)],
                            Plus(Complexity(node.expr, c), constraints(s)))
         [] node.k = "BinaryOp" ->
                Plus(Plus(Complexity(node.left, c), Complexity(node.right, c)),
                     BinaryOpCost(node.op, ResultType(node.left, c.scope),
                                  ResultType(node.right, c.scope)))
         [] node.k = "UnaryOp" ->
                Plus(IF IsNumeric(ResultType(node.expr, c.scope)) THEN Costs(Monomial(0, 0))
                     ELSE IF IsArray(ResultType(node.expr, c.scope))
                     THEN Costs(ShapeCost(Indices(ResultType(node.expr, c.scope))))
                     ELSE CostError("RuntimeError"),
                     Complexity(node.expr, c))
         [] node.k = "Function" ->
                Plus(Costs(IF node.name = "inv" THEN Monomial(3, 0) ELSE Monomial(0, 0)),
                     Complexity(node.arg, c))
         [] node.k = "EE" ->
                LET parts == inner(Put(Put(EmptyTable, node.idx_row, ObjectSymbol(AtomT, NoConstraint)),
                                       node.idx_col, ObjectSymbol(AtomT, NoConstraint)))
                IN Plus(Plus(Plus(Costs(Monomial(3, 0)), Complexity(node.rhs, parts)),
                             Complexity(node.diag, parts)),
                        Complexity(node.off, parts))
         [] node.k \in {"BinaryLogicalOp", "RelOp"} ->
                Plus(Plus(Costs(Monomial(0, 0)), Complexity(node.lhs, c)), Complexity(node.rhs, c))
         [] node.k = "UnaryLogicalOp" ->
                Plus(Costs(Monomial(0, 0)), Complexity(node.constraint, c))
         [] node.k = "Predicate" -> Costs(Monomial(0, 0))

\* init_complexity of visit_Method: the terms of the symbols of the Method's
\* table whose symbol_type attribute is an ArrayType
RECURSIVE InitComplexity(_, _)
InitComplexity(table, names) ==
    IF names = {} THEN NoCost
    ELSE LET n == CHOOSE x \in names : TRUE
         IN PolyAdd(IF IsArray(BoundMethod(table[n])) THEN ShapeCost(Indices(table[n].type))
                    ELSE NoCost,
                    InitComplexity(table, names \ {n}))

\* Complexity.visit_Method up to raw_complexity
RawComplexity(statements, table) ==
    Plus(Costs(InitComplexity(table[1], DOMAIN table[1])),
         ComplexityOfAll(statements, [table |-> table, scope |-> table]))

\* the expression of the order sympy gives for M, N -> oo: the monomials of p
\* no other monomial of p dominates
Dominant(p) ==
    {e \in DOMAIN p : \A d \in DOMAIN p : (d[1] >= e[1] /\ d[2] >= e[2]) => d = e}

\* the global table of the compiled Methods: the parameters A, B, K, C, the
\* function R, the atom j (such that element(j, H)) and the bond k
CompiledGlobal ==
    Put(Put(Annotated,
        "j", ObjectSymbol(AtomT, Predicate("element", <<Name("j"), Name("H")>>))),
        "k", ObjectSymbol(BondT, NoConstraint))

\* the Method's table after the statements Declaring
CompiledTable ==
    Put(Put(Put(EmptyTable,
        "v", VariableSymbol(ArrayType(<<"Atom">>))),
        "w", VariableSymbol(ArrayType(<<"Bond">>))),
        "x", VariableSymbol(FloatT))

\* for each atom i: v[i] = A[i]    for each bond b: w[b] = K[b]    x = 1.5
Declaring ==
    <<Statement("ForEach", ForEach("i", AtomT, <<>>, NoConstraint),
                <<Statement("Assign", [lhs |-> Subscript("v", <<"i">>),
                                       rhs |-> Subscript("A", <<"i">>)], <<>>)>>),
      Statement("ForEach", ForEach("b", BondT, <<>>, NoConstraint),
                <<Statement("Assign", [lhs |-> Subscript("w", <<"b">>),
                                       rhs |-> Subscript("K", <<"b">>)], <<>>)>>),
      Statement("Assign", [lhs |-> Name("x"), rhs |-> Half], <<>>)>>

\* assignments at the top level of the Method
CompiledAssignments ==
    {Statement("Assign", [lhs |-> Name("x"), rhs |-> rhs], <<>>) :
        rhs \in {Half, Name("x"), UnaryOp(Name("x")), Function("exp", Name("x")),
                 BinaryOp(Name("x"), "*", Half), BinaryOp(Name("v"), "*", Name("v")),
                 Sum("j", Subscript("A", <<"j">>)), Sum("k", Subscript("K", <<"k">>)),
                 Sum("j", BinaryOp(Subscript("A", <<"j">>), "+", Subscript("v", <<"j">>)))}}
      \cup {Statement("Assign", [lhs |-> Name("v"), rhs |-> rhs], <<>>) :
               rhs \in {Name("q"), UnaryOp(Name("v")), BinaryOp(Name("v"), "+", Name("q")),
                        BinaryOp(Half, "*", Name("v")),
                        EE("r", "c", Subscript("A", <<"r">>), Half, Subscript("B", <<"r">>))}}

\* assignments in the body of a loop over i
LoopAssignments ==
    {Statement("Assign", [lhs |-> lhs, rhs |-> rhs], <<>>) :
        lhs \in {Name("x"), Subscript("v", <<"i">>)},
        rhs \in {Half, Subscript("A", <<"i">>),
                 BinaryOp(Subscript("A", <<"i">>), "*", Subscript("v", <<"i">>)),
                 Sum("j", Subscript("A", <<"j">>))}}

CompiledLoops ==
    {Statement("ForEach", ForEach("i", AtomT, <<>>, g), <<s>>) :
        g \in {NoConstraint, ElementIsH, UnaryLogicalOp(ElementIsH)}, s \in LoopAssignments}
      \cup {Statement("ForEach", ForEach("b", BondT, <<"i", "c">>, NoConstraint), <<s, s>>) :
               s \in LoopAssignments}
      \cup {Statement("For", [name |-> "n", value_from |-> 1, value_to |-> to], <<s>>) :
               to \in {1, 3},
               s \in {Statement("ForEach", ForEach("i", AtomT, <<>>, NoConstraint), <<a>>) :
                         a \in LoopAssignments}}

\* Complexity(symbol_table, asymptotic) was built for a compiled Method
InitComplexityRun ==
    /\ pc = "compiled"
    /\ error = "none"
    /\ entry = "process_source"
    /\ global_table = CompiledGlobal
    /\ symbol_table = CompiledTable
    /\ scopes = <<>>
    /\ iterating_over = {}
    /\ indices_mapping = [n \in {} |-> ""]
    /\ nil_nodes = {}
    /\ q_types = {}
    /\ unbound_use = FALSE
    /\ predicates = {}
    /\ parent = [p \in {} |-> <<>>]
    /\ nodes = 0
    /\ \E s \in CompiledAssignments \cup CompiledLoops, asymptotic \in BOOLEAN :
         last = [op |-> "Complexity", statements |-> Append(Declaring, s),
                 asymptotic |-> asymptotic, err |-> "none"]

\* Complexity.visit(self.ast): visit_Method
ComplexityVisitMethod ==
    /\ pc = "compiled"
    /\ \E raw \in {RawComplexity(last.statements, Chain)} :
         /\ last' = [op |-> "visit_Method", statements |-> last.statements,
                     asymptotic |-> last.asymptotic, err |-> raw.err, raw |-> raw.cost,
                     order |-> IF last.asymptotic THEN Dominant(raw.cost) ELSE {}]
         /\ IF raw.err # "none" THEN Abort(raw.err) ELSE GoOn("complexity")
    /\ UNCHANGED <<entry, global_table, symbol_table, scopes, iterating_over, indices_mapping,
                   nil_nodes, q_types, unbound_use, predicates, parent, nodes>>

SpecComplexity == InitComplexityRun /\ [][ComplexityVisitMethod]_vars

----------------------------------------------------------------------------
(* ccl/method.py: CCLMethod.get_complexity and CCLMethod.translate called   *)
(* on a compiled Method.  A call gives [err, output].                       *)

\* the most calls made on one CCLMethod
MaxCalls == 2

\* the names ccl/ast.py binds to a class
ASTClasses ==
    {"ASTNode", "HasSymbolTable", "ASTVisitor", "Statement", "Annotation", "Constraint",
     "Method", "Expression", "Number", "Name", "BinaryOp", "UnaryOp", "Sum", "Subscript",
     "Function", "EE", "Assign", "For", "ForEach", "BinaryLogicalOp", "UnaryLogicalOp",
     "RelOp", "Predicate", "Parameter", "Substitution", "Object", "Property", "Constant"}

\* the modules of ccl/generators and the class each one defines
Generators == [latex |-> "Latex", graphviz |-> "Graphviz", python |-> "Python", cpp |-> "Cpp"]

\* the nodes among a node's attribute values and in its list attributes
Attributes(node) ==
    IF node.k \in {"Assign"} THEN {node.lhs, node.rhs}
    ELSE IF node.k = "For" THEN {node.body[i] : i \in 1..Len(node.body)}
    ELSE IF node.k = "ForEach"
    THEN (IF node.constraints.k = "None" THEN {} ELSE {node.constraints})
         \cup {node.body[i] : i \in 1..Len(node.body)}
    ELSE IF node.k = "BinaryOp" THEN {node.left, node.right}
    ELSE IF node.k = "UnaryOp" THEN {node.expr}
    ELSE IF node.k = "Sum" THEN {Name(node.name), node.expr}
    ELSE IF node.k = "Function" THEN {node.arg}
    ELSE IF node.k = "EE" THEN {node.diag, node.off, node.rhs}
    ELSE IF node.k = "Subscript"
    THEN {Name(node.name)} \cup {Name(node.indices[i]) : i \in 1..Len(node.indices)}
    ELSE IF node.k \in {"RelOp", "BinaryLogicalOp"} THEN {node.lhs, node.rhs}
    ELSE IF node.k = "UnaryLogicalOp" THEN {node.constraint}
    ELSE {}

\* search_ast_element(node, query) is not None, query an instance of class
RECURSIVE search_ast_element(_, _)
search_ast_element(node, class) ==
    \/ node.k = class
    \/ \E value \in Attributes(node) : search_ast_element(value, class)

\* get_regression_expr: ccl.ast.RegressionExpr((-1, -1)) is evaluated first
get_regression_expr(statements) ==
    IF "RegressionExpr" \notin ASTClasses THEN [err |-> "AttributeError", found |-> FALSE]
    ELSE [err |-> "none",
          found |-> \E i \in 1..Len(statements) :
                       search_ast_element(statements[i], "RegressionExpr")]

\* generator(self.symbol_table, **kwargs): the counters and lists of a new object
NewGenerator(language) ==
    [language |-> language, sum_count |-> 0, ee_count |-> 0, defs |-> <<>>]

\* g.visit(node): the helper definitions in the order they are appended
RECURSIVE Generate(_, _)
RECURSIVE GenerateAll(_, _)

GenerateAll(values, g) ==
    IF values = <<>> THEN g ELSE GenerateAll(Tail(values), Generate(Head(values), g))

Generate(node, g) ==
    IF node.k = "Sum"
    THEN LET inner == Generate(node.expr, [g EXCEPT !.sum_count = @ + 1])
         IN  [inner EXCEPT !.defs = Append(@, <<"sum", g.sum_count>>)]
    ELSE IF node.k = "EE"
    THEN LET inner == GenerateAll(<<node.off, node.diag, node.rhs>>,
                                  [g EXCEPT !.ee_count = @ + 1])
         IN  [inner EXCEPT !.defs = Append(@, <<"ee", g.ee_count>>)]
    ELSE IF node.k = "Assign" THEN GenerateAll(<<node.lhs, node.rhs>>, g)
    ELSE IF node.k \in {"For", "ForEach"} THEN GenerateAll(node.body, g)
    ELSE IF node.k = "BinaryOp" THEN GenerateAll(<<node.left, node.right>>, g)
    ELSE IF node.k = "UnaryOp" THEN Generate(node.expr, g)
    ELSE IF node.k = "Function" THEN Generate(node.arg, g)
    ELSE g

\* the part of get_complexity and of translate after the regression check
Complexity_visit(statements, table) ==
    LET raw == RawComplexity(statements, table)
    IN  [err |-> raw.err, output |-> <<"complexity", Dominant(raw.cost)>>]

Translated(statements, language) ==
    IF language \notin DOMAIN Generators THEN [err |-> "CCLError", output |-> <<>>]
    ELSE [err |-> "none",
          output |-> <<language, GenerateAll(statements, NewGenerator(language)).defs>>]

\* a call of kind "get_complexity" or "translate" on the CCLMethod
Call(kind, statements, table, language) ==
    LET found == get_regression_expr(statements)
    IN  IF found.err # "none" THEN [err |-> found.err, output |-> <<>>, at |-> "get_regression_expr"]
        ELSE IF found.found THEN [err |-> "CCLError", output |-> <<>>, at |-> "regression"]
        ELSE (IF kind = "translate" THEN Translated(statements, language)
              ELSE Complexity_visit(statements, table)) @@ [at |-> "visit"]

\* CCLMethod(source) returned: ast and symbol_table are set, no call was made
InitMethod ==
    /\ pc = "compiled"
    /\ error = "none"
    /\ entry = "process_source"
    /\ global_table = CompiledGlobal
    /\ symbol_table = CompiledTable
    /\ scopes = <<>>
    /\ iterating_over = {}
    /\ indices_mapping = [n \in {} |-> ""]
    /\ nil_nodes = {}
    /\ q_types = {}
    /\ unbound_use = FALSE
    /\ predicates = {}
    /\ parent = [p \in {} |-> <<>>]
    /\ nodes = 0
    /\ \E s \in CompiledAssignments \cup CompiledLoops :
         last = [op |-> "CCLMethod", statements |-> Append(Declaring, s), calls |-> <<>>,
                 err |-> "none"]

\* the CCLMethod after one more call; an exception ends the call, not the object
Called(kind, language, out) ==
    [op |-> kind, statements |-> last.statements, err |-> out.err,
     calls |-> Append(last.calls,
                      [kind |-> kind, language |-> language, err |-> out.err, at |-> out.at,
                       output |-> out.output, ast |-> last.statements, tables |-> Chain])]

get_complexity ==
    /\ pc = "compiled"
    /\ Len(last.calls) < MaxCalls
    /\ \E out \in {Call("get_complexity", last.statements, Chain, "")} :
         last' = Called("get_complexity", "", out)
    /\ UNCHANGED <<pc, error, entry, global_table, symbol_table, scopes, iterating_over,
                   indices_mapping, nil_nodes, q_types, unbound_use, predicates, parent, nodes>>

translate ==
    /\ pc = "compiled"
    /\ Len(last.calls) < MaxCalls
    /\ \E language \in DOMAIN Generators \cup {"fortran"} :
         \E out \in {Call("translate", last.statements, Chain, language)} :
            last' = Called("translate", language, out)
    /\ UNCHANGED <<pc, error, entry, global_table, symbol_table, scopes, iterating_over,
                   indices_mapping, nil_nodes, q_types, unbound_use, predicates, parent, nodes>>

NextMethod == get_complexity \/ translate

SpecMethod == InitMethod /\ [][NextMethod]_vars

----------------------------------------------------------------------------
(* Properties *)

\* ccl/errors.py: the subclasses of CCLCodeError
CCLCodeErrors == {"CCLSyntaxError", "CCLSymbolError", "CCLTypeError"}

\* the steps that belong to the statements and to the end of visit_Method
StatementOps == {"Assign", "For", "EndFor", "ForEach", "EndForEach",
                 "check_substitutions_default"}

\* C1: a compilation of a source text either returns or ends with one of
\* CCLSyntaxError, CCLSymbolError, CCLTypeError, and with no other exception
C1_OnlyCodeErrors ==
    (entry = "process_source" /\ pc = "failed") => error \in CCLCodeErrors

\* C2: after a compilation that succeeded no Expression node of the AST is left
\* with result_type None
C2_EveryExpressionTyped ==
    pc = "done" => nil_nodes = {}

\* C3: in a program that compiled, no Object-typed name was used as an expression
\* or as a subscript index while nothing iterated it
C3_ObjectNamesBound ==
    pc = "done" => ~unbound_use

\* C4: when a SubstitutionSymbol has no default rule after the annotations, the
\* compilation fails with CCLSymbolError whatever the statements are
C4_MissingDefaultIsSymbolError ==
    (pc \in {"done", "failed"} /\ last.op \in StatementOps /\ MissingDefault(global_table))
        => (pc = "failed" /\ error = "CCLSymbolError")

\* the guards of every SubstitutionSymbol are pairwise structurally distinct
GuardsPairwiseDistinct ==
    \A n \in DOMAIN global_table :
        \A j, k \in 1..Len(global_table[n].rules) :
            j < k => global_table[n].rules[j].guard # global_table[n].rules[k].guard

\* the guard of a Substitution node is structurally equal to none of the rules
GuardIsNew(guard, rules) == \A k \in 1..Len(rules) : rules[k].guard # guard

\* C5: a Substitution annotation for a declared substitution name is accepted iff
\* its index tuple equals the declared one and its guard is structurally new,
\* every rejection of a redeclaration is a CCLSymbolError, and the guards of a
\* SubstitutionSymbol are pairwise structurally distinct
C5_Redeclaration ==
    /\ (last.op = "Substitution" /\ last.prior.kind = "Substitution")
         => /\ last.err = "none" <=> /\ last.indices = last.prior.indices
                                     /\ GuardIsNew(last.node.constraints, last.prior.rules)
            /\ last.err \in {"none", "CCLSymbolError"}
    /\ (last.op = "Substitution" /\ last.prior.kind \notin {"None", "Substitution"})
         => last.err = "CCLSymbolError"
    /\ GuardsPairwiseDistinct

\* C6: q resolves to a symbol of type Array(Atom) at every point, and every Name
\* node q of a compiled program is typed Array(Atom)
C6_QIsAtomVector ==
    /\ pc \in {"annotations", "statements", "done"}
         => Resolve(Chain, "q") = VariableSymbol(ArrayType(<<"Atom">>))
    /\ pc = "done" => q_types \subseteq {ArrayType(<<"Atom">>)}

\* the annotations that declare one name
DeclaringOps == {"Parameter", "Object", "Property", "Constant"}

\* C7 as stated: a name declared by a Parameter, Object, Property or Constant
\* annotation is an entry of the table attached to the Method, and the global
\* table holds only q and the math functions
C7_AnnotationsInMethodTable ==
    /\ (last.op \in DeclaringOps /\ last.err = "none")
         => last.node.name \in DOMAIN symbol_table
    /\ pc \in {"annotations", "statements", "done"}
         => DOMAIN global_table = {"q"} \cup MATH_FUNCTIONS

\* C7: a name declared by a Parameter, Object, Property or Constant annotation is
\* an entry of the global table, the parent of the table attached to the Method;
\* the Method's table holds only the variables the assignments define
C7_AnnotationsInGlobalTable ==
    /\ (last.op \in DeclaringOps /\ last.err = "none")
         => /\ last.node.name \in DOMAIN global_table
            /\ last.node.name \notin DOMAIN symbol_table
    /\ \A n \in DOMAIN symbol_table : symbol_table[n].kind = "Variable"
    /\ {"q"} \cup MATH_FUNCTIONS \subseteq DOMAIN global_table

C7_Witness ==
    /\ last.op = "Parameter"
    /\ last.err = "none"
    /\ global_table["A"] = ParameterSymbol(AtomParameter)

\* the assignment just met has a Name on the left that resolves to a
\* SubstitutionSymbol or a ParameterSymbol
AssignsToSubstitutionOrParameter ==
    /\ last.op = "Assign"
    /\ last.lhs.k = "Name"
    /\ last.prior.kind \in {"Substitution", "Parameter"}

\* C8 as stated: an assignment to a Name that resolves to a SubstitutionSymbol or
\* to a ParameterSymbol is rejected with CCLTypeError
C8_RejectedWithTypeError ==
    AssignsToSubstitutionOrParameter => last.err = "CCLTypeError"

\* C8: an assignment to a Name that resolves to a SubstitutionSymbol or to a
\* ParameterSymbol is rejected, and with CCLSymbolError once its right-hand side
\* is typed Numeric or Array
C8_RejectedWithSymbolError ==
    AssignsToSubstitutionOrParameter
        => /\ last.err # "none"
           /\ (IsNumeric(last.rtype) \/ IsArray(last.rtype)) => last.err = "CCLSymbolError"

C8_Witness ==
    /\ AssignsToSubstitutionOrParameter
    /\ last.prior = ParameterSymbol(AtomParameter)
    /\ last.rtype = FloatT
    /\ last.err = "CCLSymbolError"
    /\ pc = "failed"

\* the pairs (L, R) an assignment to a bound Name is accepted for
Compatible(L, R) ==
    \/ IsArray(L) /\ IsArray(R) /\ Indices(L) = Indices(R)
    \/ IsArray(L) /\ IsNumeric(R)
    \/ IsNumeric(L) /\ IsNumeric(R) /\ ~(L = IntT /\ R = FloatT)

\* the assignment just met has a bound Name on the left and a typed right-hand side
AssignsToBoundName ==
    /\ last.op = "Assign"
    /\ last.lhs.k = "Name"
    /\ last.prior.kind # "None"
    /\ last.rtype # NoneT

\* the assignment just met was accepted iff the types allow it, was rejected with
\* CCLTypeError otherwise, and left the symbol as it was
DecidedByTypes ==
    /\ last.err = (IF Compatible(last.prior.type, last.rtype) THEN "none" ELSE "CCLTypeError")
    /\ last.err = "none" => Resolve(Chain, last.name) = last.prior

\* C9 as stated: an assignment to a bound Name of type L with a right-hand side of
\* type R is accepted iff the pair is compatible, is a CCLTypeError otherwise, and
\* never changes the symbol's type
C9_AnyBoundName ==
    AssignsToBoundName => DecidedByTypes

\* C9: the same, for a bound Name that is no loop variable (always CCLTypeError)
\* and resolves neither to a SubstitutionSymbol nor to a ParameterSymbol
\* (CCLSymbolError)
C9_BoundVariable ==
    (AssignsToBoundName /\ ~last.looped
     /\ last.prior.kind \notin {"Substitution", "Parameter"}) => DecidedByTypes

C9_Witness ==
    /\ last.op = "Assign"
    /\ last.lhs = Name("k")
    /\ last.prior = VariableSymbol(IntT)
    /\ ~last.looped
    /\ last.rtype = FloatT
    /\ last.err = "CCLTypeError"

\* the type the BinaryOp has, RaisedTypeError if it has none
ClaimedBinaryOpType(op, l, r) ==
    IF IsNumeric(l) /\ IsNumeric(r) THEN (IF l = IntT /\ r = IntT THEN IntT ELSE FloatT)
    ELSE IF IsArray(l) /\ IsArray(r) THEN
        IF op \in {"+", "-"} /\ Indices(l) = Indices(r) THEN l
        ELSE IF op = "*" /\ dim(l) = 1 /\ dim(r) = 1 /\ l = r THEN FloatT
        ELSE IF op = "*" /\ dim(l) = 1 /\ dim(r) = 2 /\ l[2] = r[2] THEN ArrayType(<<r[3]>>)
        ELSE IF op = "*" /\ dim(l) = 2 /\ dim(r) = 1 /\ l[3] = r[2] THEN ArrayType(<<l[2]>>)
        ELSE IF op = "*" /\ dim(l) = 2 /\ dim(r) = 2 /\ l[3] = r[2]
             THEN ArrayType(<<l[2], r[3]>>)
        ELSE RaisedTypeError
    ELSE IF IsArray(l) /\ IsNumeric(r) /\ op \in {"*", "/"} THEN l
    ELSE IF IsNumeric(l) /\ IsArray(r) /\ op = "*" THEN r
    ELSE RaisedTypeError

\* a Numeric, a vector, a matrix, an Object or a Parameter
ScalarVectorMatrix(t) ==
    IsNumeric(t) \/ IsObject(t) \/ IsParameter(t) \/ (IsArray(t) /\ dim(t) \in {1, 2})

\* C10: for Numeric, vector and matrix operands the type of a BinaryOp is the
\* stated function of the operator and the operand types, and every other
\* combination, an Object or Parameter operand included, raises CCLTypeError
C10_BinaryOpTypes ==
    (last.op = "BinaryOp" /\ ScalarVectorMatrix(last.ltype) /\ ScalarVectorMatrix(last.rtype))
        => /\ last.result = ClaimedBinaryOpType(last.bop, last.ltype, last.rtype)
           /\ last.err = (IF last.result = RaisedTypeError THEN "CCLTypeError" ELSE "none")

C10_Witness ==
    /\ last.op = "BinaryOp"
    /\ last.bop = "*"
    /\ last.ltype = ArrayType(<<"Atom", "Bond">>)
    /\ last.rtype = ArrayType(<<"Bond">>)
    /\ last.result = ArrayType(<<"Atom">>)
    /\ pc = "typed"

\* the types the index names of a Subscript resolve to
IndexTypes(node) == [k \in 1..Len(node.indices) |-> Resolve(Chain, node.indices[k]).type]

\* every index of the Subscript resolves, and is being iterated over if it names
\* an Object
IndicesIterated(node) ==
    \A k \in 1..Len(node.indices) :
        /\ Defined(Chain, node.indices[k])
        /\ IsObject(IndexTypes(node)[k]) => node.indices[k] \in iterating_over

\* the index tuples a parameter of type ptype can be indexed with
ParameterIndexable(ptype, types) ==
    \/ ptype = AtomParameter /\ types = <<AtomT>>
    \/ ptype = BondParameter /\ types \in {<<BondT>>, <<AtomT, AtomT>>}

\* the expression just visited is a Subscript on a ParameterSymbol whose Object
\* indices are iterated over
VisitedParameterSubscript ==
    /\ last.op = "Visit"
    /\ last.node.k = "Subscript"
    /\ Resolve(Chain, last.node.name).kind = "Parameter"
    /\ IndicesIterated(last.node)

\* C11: a Subscript on a ParameterSymbol types as Float iff an AtomParameter is
\* indexed by one Atom or a BondParameter by one Bond or two Atoms; every other
\* index tuple and every indexing of a CommonParameter raises CCLTypeError
C11_ParameterSubscript ==
    VisitedParameterSubscript
        => IF ParameterIndexable(Resolve(Chain, last.node.name).type, IndexTypes(last.node))
           THEN last.err = "none" /\ last.t = FloatT
           ELSE last.err = "CCLTypeError"

\* the expression just visited is a Subscript on a SubstitutionSymbol, with the
\* Atom the open loop iterates as index
VisitedSubstitutionSubscript ==
    /\ last.op = "Visit"
    /\ last.node.k = "Subscript"
    /\ Resolve(Chain, last.node.name).kind = "Substitution"
    /\ IndicesIterated(last.node)

\* C12: a Subscript on a SubstitutionSymbol with an iterated Atom as index types
\* as Float, also when the rules of the substitution use another substitution
\* with the same or with another formal index
C12_NestedSubstitution ==
    VisitedSubstitutionSubscript => (last.err = "none" /\ last.t = FloatT)

\* C13: in a program that compiled, every Predicate node met in the constraint of
\* a For-each loop, of an Object annotation or of a substitution rule names a
\* catalog predicate and has as many arguments as its signature
C13_PredicatesInCatalog ==
    pc = "done"
        => \A p \in predicates : p[1] \in PredicateNames /\ Len(PREDICATES[p[1]]) = p[2]

\* the type visit_EE finds for a part of the EE node, the two indices bound
PartType(node, part) ==
    Visit(part,
          [Fields EXCEPT !.chain = <<Put(Put(EmptyTable, node.idx_row, ObjectSymbol(AtomT, NoConstraint)),
                                         node.idx_col, ObjectSymbol(AtomT, NoConstraint))>> \o @,
                         !.iter = @ \cup {node.idx_row, node.idx_col}],
          {}).t

\* the expression just visited is an EE node whose two index names are different
\* and free, and whose three parts have a type
VisitedEE ==
    /\ last.op = "Visit"
    /\ last.node.k = "EE"
    /\ last.node.idx_row # last.node.idx_col
    /\ ~Defined(Chain, last.node.idx_row)
    /\ ~Defined(Chain, last.node.idx_col)
    /\ \A part \in {last.node.diag, last.node.off, last.node.rhs} :
           PartType(last.node, part) # NoneT

\* C14: an EE node types as Array(Atom) iff its three parts type to Float, and
\* then its index names neither resolve nor are iterated over afterwards; a part
\* of any other type raises CCLTypeError
C14_EETyping ==
    VisitedEE
        => IF \A part \in {last.node.diag, last.node.off, last.node.rhs} :
                  PartType(last.node, part) = FloatT
           THEN /\ last.err = "none"
                /\ last.t = ArrayType(<<"Atom">>)
                /\ \A n \in {last.node.idx_row, last.node.idx_col} :
                       n \notin iterating_over /\ ~Defined(last.chain, n)
           ELSE last.err = "CCLTypeError"

\* C15: with the atom parameters A and B and the atoms i and j declared by
\* annotations, the EE expression of q = EE[row i, col j, diag A[i],
\* off 1 / R[i, j], rhs -B[i]] is typed Array(Atom) without error
C15_ScenarioEEM ==
    (last.op = "Visit" /\ last.node = EEM /\ last.env = "objects")
        => (last.err = "none" /\ last.t = ArrayType(<<"Atom">>))

\* the loop just entered: its table is the current table, a child of the table
\* that was current, and the names it bound resolve in it
LoopEntered ==
    /\ scopes # <<>>
    /\ scopes[Len(scopes)].parent = Len(scopes) - 1
    /\ Chain[1] = scopes[Len(scopes)].table
    /\ \A n \in scopes[Len(scopes)].bound : n \in DOMAIN Chain[1]

\* the loop just left: the current table is the one that was current on entry,
\* and the names the loop bound do not resolve from it
LoopLeft ==
    /\ Len(scopes) = last.parent
    /\ \A n \in last.bound : ~Defined(Chain, n)

\* C16: entering a For or For-each makes a child table of the current table the
\* current one, the names the loop bound resolve all through its body, and after
\* the loop the table that was current on entry is current again and resolves
\* none of these names
C16_LoopScopes ==
    /\ (last.op \in {"For", "ForEach"} /\ last.err = "none") => LoopEntered
    /\ pc = "statements"
         => \A k \in 1..Len(scopes) : \A n \in scopes[k].bound : Defined(Chain, n)
    /\ (last.op \in {"EndFor", "EndForEach"} /\ last.err = "none") => LoopLeft

\* a For-each over a bond with its two atoms, nested in a For loop, was left
C16_Witness ==
    /\ last.op = "EndForEach"
    /\ last.bound = {"b", "i", "j"}
    /\ last.parent = 1
    /\ Len(scopes) = 1
    /\ scopes[1].kind = "For"
    /\ pc = "statements"

\* the step just taken declared a bond with its two atoms
BondDeclaration ==
    /\ last.op \in {"Object", "ForEach"}
    /\ last.node.type = BondT
    /\ last.node.atom_indices # <<>>

\* C17: an Object annotation or a For-each that declares a bond with two atoms
\* succeeds iff the three names are pairwise different and none of them resolved
\* before, and then binds the two atom names as Atom and the bond name as Bond;
\* in every other case it raises CCLSymbolError
C17_BondDecomposition ==
    BondDeclaration
        => /\ last.err = (IF Cardinality(DeclaredNames(last.node)) = 3 /\ last.defined = {}
                          THEN "none" ELSE "CCLSymbolError")
           /\ last.err = "none"
                => /\ Resolve(Chain, last.node.name).kind = "Object"
                   /\ Resolve(Chain, last.node.name).type = BondT
                   /\ \A k \in 1..2 :
                        Resolve(Chain, last.node.atom_indices[k]) = ObjectSymbol(AtomT, NoConstraint)

\* a For-each over a bond failed because its two atoms have the same name
C17_Witness ==
    /\ last.op = "ForEach"
    /\ last.node.name = "b"
    /\ last.node.atom_indices = <<"j", "j">>
    /\ last.defined = {}
    /\ last.err = "CCLSymbolError"
    /\ pc = "failed"

\* the steps that declare names: the annotations of one name, the Object
\* annotation, the loop headers
DeclarationOps == DeclaringOps \cup {"For", "ForEach"}

\* no identifier is bound in two tables of the current scope chain
NoShadowing ==
    \A j, k \in 1..Len(Chain) : j < k => DOMAIN Chain[j] \cap DOMAIN Chain[k] = {}

VisitedSum == last.op = "Visit" /\ last.env = "sums" /\ last.node.k = "Sum"

\* the outcome of visiting the body of the visited Sum while its name is iterated
SumBody == Visit(last.node.expr, [Fields EXCEPT !.iter = @ \cup {last.node.name}], {})

\* C19 as stated: a Sum whose name is not defined or resolves to a symbol that
\* is no ObjectSymbol is rejected with CCLSymbolError, and the type of an
\* accepted Sum is the type of its body
C19_SumOverObject ==
    VisitedSum
      => /\ Resolve(Chain, last.node.name).kind # "Object" => last.err = "CCLSymbolError"
         /\ last.err = "none"
              => /\ Resolve(Chain, last.node.name).kind = "Object"
                 /\ last.t = SumBody.t

\* the object of the parsed Method at a path
RECURSIVE ObjectAt(_, _)
ObjectAt(o, path) == IF path = <<>> THEN o ELSE ObjectAt(o.items[path[1]], Tail(path))

\* the paths of all objects held by the object o at path, at any depth
RECURSIVE PathsOf(_, _)
PathsOf(o, path) ==
    {path} \cup UNION {PathsOf(o.items[k], Append(path, k)) : k \in 1..Len(o.items)}

\* the paths of the AST nodes of the parsed Method
NodePaths == {p \in PathsOf(last.method, <<>>) : IsASTNode(ObjectAt(last.method, p))}

\* the path of the node one of whose fields holds the object at path p, directly
\* or as an item of a list or tuple
RECURSIVE Containing(_)
Containing(p) ==
    LET q == SubSeq(p, 1, Len(p) - 1)
    IN IF q = <<>> \/ IsASTNode(ObjectAt(last.method, q)) THEN q ELSE Containing(q)

\* C20: after parsing, the Method has no parent and every other node of the
\* AST, the items of list and tuple fields included, has the node that holds it
\* as parent
C20_ParentLinks ==
    last.op = "set_parent_nodes"
      => /\ DOMAIN parent = NodePaths \ {<<>>}
         /\ \A p \in DOMAIN parent : parent[p] = Containing(p)

\* a Method was parsed that nests a loop in a loop: the index of a Subscript, an
\* item of a tuple, is linked to the Subscript, and the statement of the inner
\* body, an item of a list, to the inner loop
C20_Witness ==
    /\ last.op = "set_parent_nodes"
    /\ \E p \in DOMAIN parent :
         /\ Len(p) >= 7
         /\ ObjectAt(last.method, p).class = "Name"
         /\ ObjectAt(last.method, SubSeq(p, 1, Len(p) - 1)).class = "tuple"
         /\ ObjectAt(last.method, parent[p]).class = "Subscript"
    /\ \E p \in DOMAIN parent :
         /\ ObjectAt(last.method, p).class = "Assign"
         /\ ObjectAt(last.method, parent[p]).class \in {"For", "ForEach"}
         /\ ObjectAt(last.method, parent[parent[p]]).class = "For"

\* the statement of the compiled Method after the declaring ones
Analysed == last.statements[Len(Declaring) + 1]

\* the cost the analyzer gives a part of the Method met in the scope chain scope
CostIn(node, scope) == Complexity(node, [table |-> Chain, scope |-> scope]).cost

\* the cost of the statements Declaring: N + M + 1
DeclaringCost == PolyAdd(PolyAdd(Monomial(1, 0), Monomial(0, 1)), Monomial(0, 0))

\* the cost of a constraint, a missing one costing 0
ConstraintCost(g) == IF g.k = "None" THEN NoCost ELSE CostIn(g, Chain)

\* the sum of the costs of the statements of a loop's body
RECURSIVE BodyCost(_, _)
BodyCost(body, scope) ==
    IF body = <<>> THEN NoCost ELSE PolyAdd(CostIn(Head(body), scope), BodyCost(Tail(body), scope))

\* C23 as stated: the cost of a For-each over atoms (bonds) is N (M) times the
\* sum of the costs of its body and its constraint, and the cost of a Sum over
\* an atom (bond) is N (M) times the sum of the costs of its body and the
\* constraint of the object it binds
C23_LoopAndSumCost ==
    last.op = "visit_Method"
      => /\ Analysed.k = "ForEach"
              => /\ last.err = "none"
                 /\ last.raw = PolyAdd(DeclaringCost,
                                 Times(1, OBJECT_COMPLEXITY[Analysed.type],
                                       PolyAdd(BodyCost(Analysed.body,
                                                        <<ForEachScope(Analysed, 0).table>> \o Chain),
                                               ConstraintCost(Analysed.constraints))))
         /\ (Analysed.k = "Assign" /\ Analysed.rhs.k = "Sum")
              => /\ last.err = "none"
                 /\ last.raw = PolyAdd(PolyAdd(DeclaringCost, Monomial(0, 0)),
                                 Times(1, OBJECT_COMPLEXITY[Resolve(Chain, Analysed.rhs.name).type],
                                       PolyAdd(CostIn(Analysed.rhs.expr, Chain),
                                               ConstraintCost(Resolve(Chain, Analysed.rhs.name).constraints))))

\* one term for every array-typed VariableSymbol among names of the Method's
\* table: the product over its shape of N for Atom and M for Bond
RECURSIVE AllocationTerms(_)
AllocationTerms(names) ==
    IF names = {} THEN NoCost
    ELSE LET n == CHOOSE x \in names : TRUE
         IN PolyAdd(IF symbol_table[n].kind = "Variable" /\ IsArray(symbol_table[n].type)
                    THEN ShapeCost(Indices(symbol_table[n].type))
                    ELSE NoCost,
                    AllocationTerms(names \ {n}))

\* C24 as stated: the raw cost of a Method is the sum of the costs of its
\* statements and of one allocation term for every array-typed VariableSymbol
\* of its table
C24_AllocationTerms ==
    (last.op = "visit_Method" /\ last.err = "none")
      => last.raw = PolyAdd(AllocationTerms(DOMAIN symbol_table),
                            PolyAdd(DeclaringCost, CostIn(Analysed, Chain)))

\* C21: a get_complexity or translate call on a Method whose AST holds a regression
\* placeholder raises CCLError at the regression check, before the analyzer or the
\* generator runs; on a Method without one the check raises nothing and the call
\* goes on to the analyzer or the generator.
C21_RegressionGuard ==
    \A i \in 1..Len(last.calls) :
        IF \E k \in 1..Len(last.calls[i].ast) :
              search_ast_element(last.calls[i].ast[k], "RegressionExpr")
        THEN last.calls[i].err = "CCLError" /\ last.calls[i].at = "regression"
        ELSE last.calls[i].at = "visit"

\* C22: every translate call with a back end of ccl/generators returns an output,
\* two calls with the same back end on the same Method return the same output, and
\* the AST and the symbol tables are after a call what they were before it.
C22_SameOutputTwice ==
    \A i \in 1..Len(last.calls) : \A j \in 1..Len(last.calls) :
        (/\ last.calls[i].kind = "translate" /\ last.calls[j].kind = "translate"
         /\ last.calls[i].language \in DOMAIN Generators
         /\ last.calls[i].language = last.calls[j].language)
        => /\ last.calls[i].err = "none" /\ last.calls[j].err = "none"
           /\ last.calls[i].output = last.calls[j].output
           /\ last.calls[i].ast = last.statements /\ last.calls[i].tables = Chain

\* C25: the set of names being iterated over is kept as a stack: once a Sum or an
\* EE has been typed without error the set is what it was when the node was
\* entered, also for a Sum over a name that the For-each around it or a Sum around
\* it is iterating over.
C25_IteratingRestored ==
    (last.op = "Visit" /\ last.err = "none" /\ last.node.k \in {"Sum", "EE"})
    => iterating_over = Environment(last.env).iter

\* C26: typing a Subscript on a SubstitutionSymbol restores the renaming of the
\* formal indices on exit: once the node is typed the map is what it was before,
\* also when the use stands in a rule of another substitution that has the same
\* formal index name.
C26_RenamingRestored ==
    (/\ last.op = "Visit" /\ last.err = "none"
     /\ last.node.k = "Subscript"
     /\ Resolve(Chain, last.node.name).kind = "Substitution")
    => indices_mapping = last.mapping

\* the assignment just met has a Subscript on the left, its right-hand side typed
\* Numeric or Array and every index name typed
AssignsThroughSubscript ==
    /\ last.op = "Assign"
    /\ last.lhs.k = "Subscript"
    /\ IsNumeric(last.rtype) \/ IsArray(last.rtype)
    /\ last.indices.err = "none"

ObjectIndices == \A k \in 1..Len(last.indices.types) : IsObject(last.indices.types[k])

\* C27: an assignment through a Subscript to an unbound name creates, in the
\* Method's table, a VariableSymbol of the Array type of the index types when every
\* index typed to an Object and is a TypeError otherwise; to a substitution it is
\* rejected; to any other bound name it is accepted when the name is an Array whose
\* shape is the tuple of the index types and is a TypeError otherwise.
C27_SubscriptAssignment ==
    AssignsThroughSubscript
    => IF last.prior.kind = "None"
       THEN IF ObjectIndices
            THEN /\ last.err = "none"
                 /\ last.name \in DOMAIN symbol_table
                 /\ symbol_table[last.name]
                       = VariableSymbol(ArrayType(Flatten(last.indices.types)))
            ELSE last.err = "CCLTypeError"
       ELSE IF last.prior.kind = "Substitution" THEN last.err = "CCLSymbolError"
       ELSE IF IsArray(last.prior.type)
               /\ AsTypes(Indices(last.prior.type)) = last.indices.types
            THEN last.err = "none" /\ ObjectIndices
            ELSE last.err = "CCLTypeError"

\* x[b] = ... in a loop over the bonds after x was created as an Array over atoms
C27_Witness ==
    /\ AssignsThroughSubscript
    /\ last.lhs = Subscript("x", <<"b">>)
    /\ last.prior = VariableSymbol(ArrayType(<<"Atom">>))
    /\ last.indices.types = <<BondT>>
    /\ last.err = "CCLTypeError"

\* the assignment just met was accepted and its name did not resolve before
CreatedVariable ==
    /\ last.op = "Assign"
    /\ last.err = "none"
    /\ last.prior.kind = "None"

\* no table of a loop holds a VariableSymbol other than the counter of a For
OnlyCountersInLoops ==
    \A k \in 1..Len(scopes) : \A n \in DOMAIN scopes[k].table :
        scopes[k].table[n].kind = "Variable"
        => scopes[k].kind = "For" /\ n = scopes[k].name /\ scopes[k].table[n].type = IntT

\* every name of the Method's table resolves to its symbol there
MethodNamesResolve ==
    \A n \in DOMAIN symbol_table : Resolve(Chain, n) = symbol_table[n]

\* C28 as stated: a variable created by its first assignment is defined in the
\* Method's table with the type of the right-hand side, at any depth of loops,
\* resolves there, and no loop table holds a VariableSymbol but a For counter
C28_CreatedWithRhsType ==
    /\ CreatedVariable => /\ last.name \in DOMAIN symbol_table
                          /\ symbol_table[last.name] = VariableSymbol(last.rtype)
    /\ MethodNamesResolve
    /\ OnlyCountersInLoops

\* C28: a variable created by its first assignment is defined in the Method's
\* table at any depth of loops: with the type of the right-hand side when the
\* left-hand side is a Name, with the Array type of the index types when it is a
\* Subscript; it resolves with that type in every later statement, and no loop
\* table holds a VariableSymbol but a For counter
C28_CreatedInMethodTable ==
    /\ [](/\ CreatedVariable
             => /\ last.name \in DOMAIN symbol_table
                /\ symbol_table[last.name]
                      = VariableSymbol(IF last.lhs.k = "Name" THEN last.rtype
                                       ELSE ArrayType(Flatten(last.indices.types)))
          /\ MethodNamesResolve
          /\ OnlyCountersInLoops)
    /\ [][\A n \in DOMAIN symbol_table :
             n \in DOMAIN symbol_table' /\ symbol_table'[n] = symbol_table[n]]_vars

\* x[i] = ... created x in a For-each nested in a For
C28_Witness ==
    /\ CreatedVariable
    /\ last.lhs = Subscript("x", <<"i">>)
    /\ last.depth = 2
    /\ symbol_table["x"] = VariableSymbol(ArrayType(<<"Atom">>))
    /\ last.rtype = FloatT

\* C29: typing a BinaryOp whose operands are typed ends with a result type on the
\* node or with CCLTypeError, for every operator and every pair of operand
\* types, Arrays with three indices included.
C29_TypedOrRejected ==
    last.op = "BinaryOp"
    => \/ last.err = "CCLTypeError"
       \/ last.err = "none" /\ last.result \notin {NoneT, RaisedTypeError}

\* C30: an assignment through a Subscript is accepted only when its right-hand
\* side types to a Numeric.
C30_ElementTakesNumeric ==
    (last.op = "Assign" /\ last.lhs.k = "Subscript" /\ last.err = "none")
    => IsNumeric(last.rtype)

====
